---- MODULE Spec2Model ----
(***************************************************************************)
(* A model of the release tooling of pontos: the version calculator of     *)
(* pontos/release/helper.py, the conventional-commit classifier of         *)
(* pontos/changelog/conventional_commits.py and the prepare command of     *)
(* pontos/release/prepare.py.                                              *)
(*                                                                         *)
(* Strings are sequences of tokens.  A version string is a sequence of     *)
(* number tokens, the token "dev" and a junk token (any text that is no    *)
(* part of a PEP 440 version); the dots between the tokens are implied.    *)
(* A commit message is a sequence of characters.                           *)
(***************************************************************************)
EXTENDS Integers, Sequences, FiniteSets, TLC

VARIABLES
    version_str,    \* the version string an operation of the calculator reads
    today,          \* datetime.date.today(): [yy |-> year % 100, mm |-> month]
    vc_result,      \* the last call of the version calculator and its outcome
    commits,        \* the git log lines handed to _sort_commits
    commit_types,   \* config 'commit_types': the ordered commit-type rules
    commit_dict,    \* the dict _sort_commits builds: group -> list of entries
    cl_pc,          \* the changelog builder's position
    cb_next_version,   \* ChangelogBuilder.next_version ("" for None)
    cb_current_version, \* ChangelogBuilder.current_version ("" for None)
    output_file,    \* the text written to the changelog output file
    p_args,         \* prepare: the parsed command line (args)
    p_env,          \* prepare: what it finds: git tags, files, signing key
    p_pc,           \* prepare: its position
    p_local,        \* prepare: its local variables
    p_writes,       \* prepare: what it has written to which file
    p_cmds,         \* prepare: the shell commands it has run, in order
    p_ret,          \* prepare: how it ended
    rel,            \* release: its arguments, surroundings, locals and log
    sgn,            \* sign: its arguments, surroundings, locals and log
    vcmd,           \* VersionCommand: the two files, the call and its result
    pg,             \* a paginated request: the pages, the position, the yield
    gl              \* _get_git_log: the repository, the commands, the result

vc_vars == <<version_str, today, vc_result>>
cl_vars ==
    <<commits, commit_types, commit_dict, cl_pc, cb_next_version, cb_current_version,
      output_file>>
p_vars == <<p_args, p_env, p_pc, p_local, p_writes, p_cmds, p_ret>>

----------------------------------------------------------------------------
(* Bounds *)

\* numbers in version strings and dates range over 0..MaxNum
MaxNum == 2
\* version strings have at most MaxVerLen tokens
MaxVerLen == 4
\* commit messages have at most MaxMsgLen characters
MaxMsgLen == 4
\* the configuration has at most MaxRules commit-type rules
MaxRules == 2
\* the repository has at most MaxTags git tags
MaxTags == 1
MaxPages == 4
MaxLogLines == 2

----------------------------------------------------------------------------
(* Outcomes of a call: a returned string, sys.exit(code), a raised exception *)

Return(s) == [kind |-> "return", value |-> s, code |-> 0, exc |-> "-"]
Exit(c) == [kind |-> "exit", value |-> <<>>, code |-> c, exc |-> "-"]
Raise(e) == [kind |-> "raise", value |-> <<>>, code |-> 0, exc |-> e]

----------------------------------------------------------------------------
(* prepare before it has done anything, and while it is not run *)

NoWrites ==
    [version_files |-> <<>>, changelog_file |-> <<>>, cc_file |-> <<>>,
     release_text |-> <<>>, tag |-> <<>>]

\* the command line and the surroundings while prepare is not run
IdleArgs ==
    [calendar |-> FALSE, patch |-> FALSE, release_version |-> <<>>,
     git_tag_prefix |-> <<>>, git_signing_key |-> "",
     conventional_commits |-> FALSE]
IdleEnv ==
    [git_tags |-> <<>>, project_file |-> FALSE, versioned_section |-> FALSE,
     unreleased_section |-> FALSE, user_signingkey |-> ""]

NoLocals ==
    [git_signing_key |-> "", release_version |-> <<>>, filename |-> "",
     changelog_bool |-> TRUE, changelog_text |-> "", searches |-> <<>>]

\* release while it is not run
RelIdle ==
    [args |-> [token |-> "", release_version |-> <<>>, next_version |-> <<>>,
               git_remote_name |-> "None", git_signing_key |-> "None",
               conventional_commits |-> FALSE, changelog |-> "None"],
     env |-> [project_file |-> FALSE, user_signingkey |-> "",
              release_text |-> FALSE, create_release |-> "created",
              changelog_exists |-> FALSE],
     pc |-> "idle", git_signing_key |-> "", release_version |-> <<>>,
     next_version |-> <<>>, commit_msg |-> <<>>, changelog_bool |-> FALSE,
     filename |-> "", log |-> <<>>, ret |-> "none"]

\* sign while it is not run
SgnIdle ==
    [args |-> [token |-> "", dry_run |-> FALSE, release_version |-> <<>>,
               passphrase |-> ""],
     env |-> [project_file |-> FALSE, release_exists |-> FALSE,
              assets |-> <<>>],
     pc |-> "idle", release_version |-> <<>>, file_paths |-> <<>>,
     done |-> 0, log |-> <<>>, ret |-> "none"]

\* VersionCommand while it is not run
VcmdIdle ==
    [start |-> [pyproject |-> <<>>, module |-> <<>>],
     pyproject |-> <<>>, module |-> <<>>,
     call |-> [op |-> "none", version |-> <<>>, develop |-> FALSE,
               force |-> FALSE],
     check_develop_raises |-> FALSE,
     pc |-> "idle", log |-> <<>>, ret |-> "none"]

\* the paginated request while it is not run
PgIdle ==
    [pages |-> <<>>, pc |-> "idle", url |-> 0, response |-> 0,
     yielded |-> <<>>]

\* _get_git_log while it is not run
GlIdle ==
    [tag_lookup |-> "", full |-> <<>>, since |-> <<>>, log_fails |-> FALSE,
     pc |-> "idle", cmd |-> <<>>, cmds |-> <<>>, ret |-> "none",
     lines |-> <<>>]

\* the version calculator before any call
NoCall == [op |-> "none", out |-> Return(<<>>)]

----------------------------------------------------------------------------
(* Version strings and packaging.version.Version *)

Num(n) == [k |-> "num", v |-> n]
DevTok == [k |-> "dev", v |-> 0]
JunkTok == [k |-> "junk", v |-> 0]

VersionTokens == {Num(n) : n \in 0..MaxNum} \cup {DevTok, JunkTok}
VersionStrings == UNION {[1..n -> VersionTokens] : n \in 0..MaxVerLen}

\* the length of the longest prefix of s made of number tokens
RECURSIVE NumPrefixLen(_)
NumPrefixLen(s) ==
    IF s = <<>> \/ Head(s).k # "num" THEN 0 ELSE 1 + NumPrefixLen(Tail(s))

\* Version(s): the release segment is the leading run of numbers (at least
\* one); what follows is nothing, "dev" (dev number 0) or "dev" and a number.
\* dev is <<>> for None and <<n>> for the dev number n.
Version(s) ==
    LET n == NumPrefixLen(s)
        rest == SubSeq(s, n + 1, Len(s))
        ok == /\ n >= 1
              /\ \/ rest = <<>>
                 \/ Len(rest) = 1 /\ rest[1] = DevTok
                 \/ Len(rest) = 2 /\ rest[1] = DevTok /\ rest[2].k = "num"
    IN  IF ~ok
        THEN [valid |-> FALSE, release |-> <<>>, dev |-> <<>>]
        ELSE [valid |-> TRUE,
              release |-> [i \in 1..n |-> s[i].v],
              dev |-> IF rest = <<>> THEN <<>>
                      ELSE IF Len(rest) = 1 THEN <<0>> ELSE <<rest[2].v>>]

\* Version.major, Version.minor, Version.micro: missing components are 0
major(v) == IF Len(v.release) >= 1 THEN v.release[1] ELSE 0
minor(v) == IF Len(v.release) >= 2 THEN v.release[2] ELSE 0
micro(v) == IF Len(v.release) >= 3 THEN v.release[3] ELSE 0

\* str(Version): the release numbers, then ".devN" when dev is not None
VersionStr(v) ==
    [i \in 1..Len(v.release) |-> Num(v.release[i])]
        \o (IF v.dev = <<>> THEN <<>> ELSE <<DevTok, Num(v.dev[1])>>)

\* f"{a}.{b}.{c}"
Fmt3(a, b, c) == <<Num(a), Num(b), Num(c)>>

----------------------------------------------------------------------------
(* pontos/release/helper.py: the version calculator *)

\* a plausible slip: both numbers have to be smaller
BehindBothSmaller(cv, t) == major(cv) < t.yy /\ minor(cv) < t.mm

\* the first branch of calculate_calendar_version: the current version is
\* taken to be behind today's calendar slot
Behind(cv, t) == major(cv) < t.yy \/ minor(cv) < t.mm

\* a plausible slip: the two branches on the dev marker swapped
CalendarMicroSwapped(cv) == IF cv.dev = <<>> THEN micro(cv) ELSE micro(cv) + 1

\* a plausible slip: the micro number is always incremented
CalendarMicroAlways(cv) == micro(cv) + 1

\* the micro number released when the current version is in today's slot
CalendarMicro(cv) == IF cv.dev = <<>> THEN micro(cv) + 1 ELSE micro(cv)

calculate_calendar_version(current_version_str, t) ==
    LET current_version == Version(current_version_str)
    IN  IF ~current_version.valid THEN Raise("InvalidVersion")
        ELSE IF Behind(current_version, t)
        THEN Return(VersionStr(Version(Fmt3(t.yy, t.mm, 0))))
        ELSE IF major(current_version) = t.yy /\ minor(current_version) = t.mm
        THEN Return(VersionStr(Version(
                 Fmt3(t.yy, t.mm, CalendarMicro(current_version)))))
        ELSE Exit(1)

\* a plausible slip: the micro number is incremented for dev versions too
PatchMicroAlways(cv) == micro(cv) + 1

\* the micro number get_next_patch_version releases
PatchMicro(cv) == IF cv.dev # <<>> THEN micro(cv) ELSE micro(cv) + 1

get_next_patch_version(current_version_str) ==
    LET current_version == Version(current_version_str)
    IN  IF ~current_version.valid THEN Raise("InvalidVersion")
        ELSE Return(VersionStr(Version(
                 Fmt3(major(current_version), minor(current_version),
                      PatchMicro(current_version)))))

\* a plausible slip: the InvalidVersion is not converted
NextDevErrorUnconverted == Raise("InvalidVersion")

\* the exception get_next_dev_version raises for an InvalidVersion
NextDevError == Raise("VersionError")

get_next_dev_version(release_version) ==
    LET release_version_obj == Version(release_version)
    IN  IF ~release_version_obj.valid THEN NextDevError
        ELSE Return(VersionStr(Version(
                 Fmt3(major(release_version_obj), minor(release_version_obj),
                      micro(release_version_obj) + 1))))

----------------------------------------------------------------------------
(* pontos/changelog/conventional_commits.py: the commit classifier *)

ADDRESS == "https://github.com/"

\* the characters of commit messages: a letter in both cases, the three
\* characters of the class [:|-], and the blank
Alphabet == {"f", "F", ":", "-", "|", " "}
Messages == UNION {[1..n -> Alphabet] : n \in 0..MaxMsgLen}

\* one line of `git log --oneline`: the short hash, a blank, the message
Line(hash, msg) == <<hash, " ">> \o msg

\* commit.split(' ', maxsplit=1): the text before the first blank and the
\* text after it
RECURSIVE FirstBlank(_, _)
FirstBlank(s, i) ==
    IF i > Len(s) THEN 0 ELSE IF s[i] = " " THEN i ELSE FirstBlank(s, i + 1)

Split(line) ==
    LET b == FirstBlank(line, 1)
    IN  <<SubSeq(line, 1, b - 1), SubSeq(line, b + 1, Len(line))>>

\* re.I: letters are compared without regard to case
Lower(c) == IF c = "F" THEN "f" ELSE c

\* \s
IsSpace(c) == c = " "

\* a plausible slip: the class without the bar, [:-]
IsSepColonHyphen(c) == c \in {":", "-"}

\* the character class [:|-]
IsSep(c) == c \in {":", "|", "-"}

\* reg.match(commit[1]) for reg = message + r'\s?[:|-]' with re.I: the length
\* of match.group(0), or 0 when the pattern does not match at position 0
RegMatch(message, msg) ==
    LET n == Len(message)
    IN  IF /\ Len(msg) >= n
           /\ \A i \in 1..n : Lower(msg[i]) = Lower(message[i])
        THEN IF Len(msg) >= n + 2 /\ IsSpace(msg[n + 1]) /\ IsSep(msg[n + 2])
             THEN n + 2
             ELSE IF Len(msg) >= n + 1 /\ IsSep(msg[n + 1])
             THEN n + 1
             ELSE 0
        ELSE 0

\* str.replace(old, ''): every occurrence of old, left to right, is removed
RECURSIVE Replace(_, _)
Replace(s, old) ==
    IF Len(s) < Len(old) \/ Len(old) = 0 THEN s
    ELSE IF SubSeq(s, 1, Len(old)) = old
    THEN Replace(SubSeq(s, Len(old) + 1, Len(s)), old)
    ELSE <<Head(s)>> \o Replace(Tail(s), old)

\* str.strip(): leading and trailing whitespace is removed
RECURSIVE LStrip(_)
LStrip(s) == IF s # <<>> /\ IsSpace(Head(s)) THEN LStrip(Tail(s)) ELSE s
RECURSIVE RStrip(_)
RStrip(s) ==
    IF s # <<>> /\ IsSpace(s[Len(s)]) THEN RStrip(SubSeq(s, 1, Len(s) - 1))
    ELSE s
Strip(s) == RStrip(LStrip(s))

\* f'{ADDRESS}{self.space}/{self.project}/commit/'
commit_link == <<ADDRESS, "space", "/", "project", "/commit/">>

\* commit[1].replace(match.group(0), '').strip()
cleaned_msg(msg, k) == Strip(Replace(msg, SubSeq(msg, 1, k)))

\* f'{cleaned_msg} [{commit[0]}]({commit_link}{commit[0]})'
Entry(commit, k) ==
    cleaned_msg(commit[2], k) \o <<" ", "[">> \o commit[1] \o <<"]", "(">>
        \o commit_link \o commit[1] \o <<")">>

EmptyDict == [g \in {} |-> <<>>]

\* a plausible slip: the entry is put at the head of the list
DictInsertFirst(d, group, entry) ==
    IF group \in DOMAIN d
    THEN [d EXCEPT ![group] = <<entry>> \o @]
    ELSE d @@ (group :> <<entry>>)

\* commit_dict[group].append(entry), the list being created when missing
DictAppend(d, group, entry) ==
    IF group \in DOMAIN d
    THEN [d EXCEPT ![group] = Append(@, entry)]
    ELSE d @@ (group :> <<entry>>)

\* the inner loop: every commit type from the i-th on is tried on the commit
RECURSIVE TryTypes(_, _, _, _)
TryTypes(d, commit, types, i) ==
    IF i > Len(types) THEN d
    ELSE LET k == RegMatch(types[i].message, commit[2])
         IN  IF k > 0
             THEN TryTypes(DictAppend(d, types[i].group, Entry(commit, k)),
                           commit, types, i + 1)
             ELSE TryTypes(d, commit, types, i + 1)

\* the outer loop over the commits from the j-th on
RECURSIVE SortFrom(_, _, _, _)
SortFrom(d, lines, types, j) ==
    IF j > Len(lines) THEN d
    ELSE SortFrom(TryTypes(d, Split(lines[j]), types, 1), lines, types, j + 1)

\* the dict _sort_commits has built when it reaches `if not commit_dict`
_sort_commits(lines, types) == SortFrom(EmptyDict, lines, types, 1)

\* a plausible slip: the empty dict is returned instead of ending the process
NoConventionalCommitsIgnored(d) == FALSE

\* `if not commit_dict`: sys.exit(1)
NoConventionalCommits(d) == DOMAIN d = {}

\* the bullets of one group: f"* {msg}\n" for every msg of the list
RECURSIVE Bullets(_, _)
Bullets(msgs, i) ==
    IF i > Len(msgs) THEN <<>>
    ELSE <<"* ">> \o msgs[i] \o <<"\n">> \o Bullets(msgs, i + 1)

\* the changelog entries: for every commit type, in configuration order,
\* whose group is a key of the dict, the subheading and the bullets
RECURSIVE Sections(_, _, _)
Sections(d, types, i) ==
    IF i > Len(types) THEN <<>>
    ELSE (IF types[i].group \in DOMAIN d
          THEN <<"\n## ", types[i].group, "\n">>
                   \o Bullets(d[types[i].group], 1)
          ELSE <<>>)
             \o Sections(d, types, i + 1)

\* f'{ADDRESS}{self.space}/{self.project}/compare/'
compare_link == <<ADDRESS, "space", "/", "project", "/compare/">>

\* the comparison line (footer)
Footer(next, current) ==
    IF next # "" /\ current # ""
    THEN <<"\n[", next, "]: ">> \o compare_link \o <<current, "...", next>>
    ELSE IF current # ""
    THEN <<"\n[Unreleased]: ">> \o compare_link \o <<"\n", current, "...HEAD">>
    ELSE <<"\n[Unreleased]: ">> \o compare_link \o <<"???...HEAD">>

\* the text _build_changelog_file writes
_build_changelog_file(d, types, next, current) ==
    <<"# Changelog\n\n",
      "All notable changes to this project will be documented in this file.\n\n">>
        \o (IF next # ""
            THEN <<"## [", next, "] - ", "date.today().isoformat()", "\n">>
            ELSE <<"## [Unreleased]\n\n">>)
        \o Sections(d, types, 1)
        \o Footer(next, current)

----------------------------------------------------------------------------
(* The classifier as a state machine *)

Rules ==
    {[message |-> <<"f">>, group |-> "Added"],
     [message |-> <<"F">>, group |-> "Fixed"],
     [message |-> <<"f", "f">>, group |-> "Added"]}
RuleLists == UNION {[1..n -> Rules] : n \in 0..MaxRules}

\* the git log: nothing (None or an empty list), one commit, or a commit
\* followed by an older one
OlderMessages == {<<"F", "-", "f">>}
CommitLogs ==
    {<<>>}
        \cup {<<Line("h1", m)>> : m \in Messages}
        \cup {<<Line("h1", m), Line("h2", o)>> :
                 m \in Messages, o \in OlderMessages}

ClInit ==
    /\ commits \in CommitLogs
    /\ commit_types \in RuleLists
    /\ commit_dict = EmptyDict
    /\ cl_pc = "start"
    /\ cb_next_version = "1.2.3" /\ cb_current_version = "1.2.2"
    /\ output_file = <<>>
    /\ version_str = <<>> /\ today = [yy |-> 0, mm |-> 1]
    /\ vc_result = NoCall
    /\ p_args = IdleArgs /\ p_env = IdleEnv /\ p_pc = "idle"
    /\ p_local = NoLocals /\ p_writes = NoWrites
    /\ p_cmds = <<>> /\ p_ret = "none"
    /\ rel = RelIdle /\ sgn = SgnIdle
    /\ vcmd = VcmdIdle /\ pg = PgIdle /\ gl = GlIdle

\* ChangelogBuilder._sort_commits: sys.exit(1) when the dict stays empty
SortCommits ==
    /\ cl_pc = "start"
    /\ commit_dict' = _sort_commits(commits, commit_types)
    /\ cl_pc' = IF NoConventionalCommits(commit_dict') THEN "exit1" ELSE "sorted"
    /\ UNCHANGED <<commits, commit_types, cb_next_version, cb_current_version,
                   output_file, vc_vars, p_vars, rel, sgn, vcmd, pg, gl>>

\* ChangelogBuilder._build_changelog_file: the text is written to the
\* output file
BuildChangelogFile ==
    /\ cl_pc = "sorted"
    /\ output_file' = _build_changelog_file(commit_dict, commit_types,
                                            cb_next_version, cb_current_version)
    /\ cl_pc' = "built"
    /\ UNCHANGED <<commits, commit_types, commit_dict, cb_next_version,
                   cb_current_version, vc_vars, p_vars, rel, sgn, vcmd, pg, gl>>

ClNext ==
    \/ SortCommits
    \/ BuildChangelogFile

\* the builder run on a few git logs with every combination of known and
\* unknown versions
RenderMessages == {<<"f", ":">>, <<"F", "f", "-">>, <<"f", " ", "f">>}
RenderLogs ==
    {<<Line("h1", m)>> : m \in RenderMessages}
        \cup {<<Line("h1", m), Line("h2", o)>> :
                 m \in RenderMessages, o \in RenderMessages}

RenderInit ==
    /\ commits \in RenderLogs
    /\ commit_types \in RuleLists
    /\ commit_dict = EmptyDict
    /\ cl_pc = "start"
    /\ cb_next_version \in {"", "1.2.3"}
    /\ cb_current_version \in {"", "1.2.2"}
    /\ output_file = <<>>
    /\ version_str = <<>> /\ today = [yy |-> 0, mm |-> 1]
    /\ vc_result = NoCall
    /\ p_args = IdleArgs /\ p_env = IdleEnv /\ p_pc = "idle"
    /\ p_local = NoLocals /\ p_writes = NoWrites
    /\ p_cmds = <<>> /\ p_ret = "none"
    /\ rel = RelIdle /\ sgn = SgnIdle
    /\ vcmd = VcmdIdle /\ pg = PgIdle /\ gl = GlIdle

----------------------------------------------------------------------------
(* The version calculator as a state machine: one call per step *)

Days == [yy : 0..MaxNum, mm : 1..MaxNum]

VcInit ==
    /\ version_str \in VersionStrings
    /\ today \in Days
    /\ vc_result = NoCall
    /\ commits = <<>> /\ commit_types = <<>>
    /\ commit_dict = EmptyDict /\ cl_pc = "idle"
    /\ cb_next_version = "" /\ cb_current_version = "" /\ output_file = <<>>
    /\ p_args = IdleArgs /\ p_env = IdleEnv /\ p_pc = "idle"
    /\ p_local = NoLocals /\ p_writes = NoWrites
    /\ p_cmds = <<>> /\ p_ret = "none"
    /\ rel = RelIdle /\ sgn = SgnIdle
    /\ vcmd = VcmdIdle /\ pg = PgIdle /\ gl = GlIdle


CalculateCalendarVersion ==
    /\ vc_result' = [op |-> "calendar",
                     out |-> calculate_calendar_version(version_str, today)]
    /\ UNCHANGED <<version_str, today, cl_vars, p_vars, rel, sgn, vcmd, pg, gl>>

GetNextPatchVersion ==
    /\ vc_result' = [op |-> "patch",
                     out |-> get_next_patch_version(version_str)]
    /\ UNCHANGED <<version_str, today, cl_vars, p_vars, rel, sgn, vcmd, pg, gl>>

GetNextDevVersion ==
    /\ vc_result' = [op |-> "dev",
                     out |-> get_next_dev_version(version_str)]
    /\ UNCHANGED <<version_str, today, cl_vars, p_vars, rel, sgn, vcmd, pg, gl>>

VcNext ==
    \/ CalculateCalendarVersion
    \/ GetNextPatchVersion
    \/ GetNextDevVersion

----------------------------------------------------------------------------
(* pontos/release/prepare.py: the prepare command *)

RELEASE_TEXT_FILE == ".release.md"

\* the tag prefix "v" as a token of a tag name
VTok == [k |-> "v", v |-> 0]

\* a plausible slip: the tag is looked up without its prefix
git_version_without_prefix(git_tag_prefix, release_version) == release_version

\* f"{git_tag_prefix}{release_version}"
git_version(git_tag_prefix, release_version) ==
    git_tag_prefix \o release_version

Range(f) == {f[i] : i \in DOMAIN f}

\* get_current_version: sys.exit(1) without a project definition file
get_current_version == IF p_env.project_file THEN Return(version_str) ELSE Exit(1)

\* the first statement of prepare that chooses the release version
ChooseReleaseVersion ==
    IF p_args.calendar
    THEN IF get_current_version.kind = "exit" THEN Exit(1)
         ELSE calculate_calendar_version(version_str, today)
    ELSE IF p_args.patch
    THEN IF get_current_version.kind = "exit" THEN Exit(1)
         ELSE get_next_patch_version(version_str)
    ELSE Return(p_args.release_version)

\* a plausible slip: the commit is never signed
commit_files_unsigned(filename, commit_msg, git_signing_key, changelog) ==
    <<[cmd |-> "git add", arg |-> filename, msg |-> ""],
      [cmd |-> "git add", arg |-> "*__version__.py", msg |-> ""]>>
        \o (IF changelog
            THEN <<[cmd |-> "git add", arg |-> "CHANGELOG.md", msg |-> ""]>>
            ELSE <<>>)
        \o <<[cmd |-> "git commit", arg |-> "", msg |-> commit_msg]>>

\* commit_files(filename, commit_msg, ...): the shell commands it runs
commit_files(filename, commit_msg, git_signing_key, changelog) ==
    <<[cmd |-> "git add", arg |-> filename, msg |-> ""],
      [cmd |-> "git add", arg |-> "*__version__.py", msg |-> ""]>>
        \o (IF changelog
            THEN <<[cmd |-> "git add", arg |-> "CHANGELOG.md", msg |-> ""]>>
            ELSE <<>>)
        \o (IF git_signing_key # ""
            THEN <<[cmd |-> "git commit -S", arg |-> git_signing_key,
                    msg |-> commit_msg]>>
            ELSE <<[cmd |-> "git commit", arg |-> "", msg |-> commit_msg]>>)

\* the versions, tags and git logs prepare is run on
PrepareCurrentVersions ==
    {<<Num(1), Num(1), Num(1), DevTok>>, <<Num(1), Num(1), Num(1)>>,
     <<Num(0), Num(2), Num(0)>>, <<Num(2), Num(2), Num(0)>>, <<JunkTok>>}
PrepareReleaseVersions ==
    {<<Num(1), Num(1), Num(1)>>, <<Num(1), Num(1), Num(2)>>}
TagPrefixes == {<<>>, <<VTok>>}
TagPool == {pre \o v : pre \in TagPrefixes, v \in PrepareReleaseVersions}
TagLists == UNION {[1..n -> TagPool] : n \in 0..MaxTags}
PrepareLogs ==
    {<<>>, <<Line("h1", <<"f", ":", "f">>)>>, <<Line("h1", <<"F">>)>>}

PrepareInit ==
    /\ version_str \in PrepareCurrentVersions
    /\ today = [yy |-> 1, mm |-> 1]
    /\ vc_result = NoCall
    /\ p_args \in [calendar : BOOLEAN, patch : BOOLEAN,
                   release_version : PrepareReleaseVersions,
                   git_tag_prefix : TagPrefixes,
                   git_signing_key : {"None", "", "KEY"},
                   conventional_commits : BOOLEAN]
    /\ p_env \in [git_tags : TagLists, project_file : BOOLEAN,
                  versioned_section : BOOLEAN, unreleased_section : BOOLEAN,
                  user_signingkey : {"", "KEY"}]
    /\ commit_types = <<[message |-> <<"f">>, group |-> "Added"]>>
    /\ commits \in PrepareLogs
    \* only the inputs of the selected changelog path vary
    /\ p_args.conventional_commits
           => p_env.versioned_section /\ p_env.unreleased_section
    /\ ~p_args.conventional_commits => commits = <<>>
    /\ p_args.git_signing_key # "None" => p_env.user_signingkey = ""
    /\ commit_dict = EmptyDict
    /\ cl_pc = "idle"
    /\ cb_next_version = "" /\ cb_current_version = "" /\ output_file = <<>>
    /\ p_pc = "start"
    /\ p_local = NoLocals
    /\ p_writes = NoWrites
    /\ p_cmds = <<>>
    /\ p_ret = "none"
    /\ rel = RelIdle /\ sgn = SgnIdle
    /\ vcmd = VcmdIdle /\ pg = PgIdle /\ gl = GlIdle

\* lines 47-69: the signing key is looked up when the command line gives
\* none, then the release version is chosen
PrepareChooseVersion ==
    /\ p_pc = "start"
    /\ LET key == IF p_args.git_signing_key = "None"
                  THEN p_env.user_signingkey ELSE p_args.git_signing_key
           lookup == IF p_args.git_signing_key = "None"
                     THEN <<[cmd |-> "git config", arg |-> "user.signingkey",
                             msg |-> ""]>>
                     ELSE <<>>
           out == ChooseReleaseVersion
       IN  /\ p_cmds' = p_cmds \o lookup
           /\ p_local' = [p_local EXCEPT !.git_signing_key = key,
                                         !.release_version = out.value]
           /\ p_pc' = CASE out.kind = "return" -> "guard"
                        [] out.kind = "exit" -> "exit"
                        [] OTHER -> "raised"
           /\ p_ret' = CASE out.kind = "return" -> "none"
                         [] out.kind = "exit" -> "exit1"
                         [] OTHER -> out.exc
    /\ UNCHANGED <<p_args, p_env, p_writes, vc_vars, cl_vars, rel, sgn, vcmd,
                   pg, gl>>

\* lines 71-77, the guardian: sys.exit(1) when the tag is already taken
PrepareGuard ==
    /\ p_pc = "guard"
    /\ IF git_version(p_args.git_tag_prefix, p_local.release_version)
              \in Range(p_env.git_tags)
       THEN p_pc' = "exit" /\ p_ret' = "exit1"
       ELSE p_pc' = "update" /\ p_ret' = "none"
    /\ UNCHANGED <<p_args, p_env, p_local, p_writes, p_cmds, vc_vars,
                   cl_vars, rel, sgn, vcmd, pg, gl>>

\* lines 79-83: update_version(terminal, release_version); it reports
\* failure when there is no project definition, and may fail otherwise
PrepareUpdateVersion ==
    /\ p_pc = "update"
    /\ \E executed \in BOOLEAN :
           /\ executed => p_env.project_file
           /\ IF executed
              THEN /\ p_writes' = [p_writes EXCEPT
                                      !.version_files = <<p_local.release_version>>]
                   /\ p_local' = [p_local EXCEPT !.filename = "pyproject.toml"]
                   /\ p_pc' = "changelog"
                   /\ p_ret' = "none"
              ELSE /\ p_pc' = "done"
                   /\ p_ret' = "False"
                   /\ UNCHANGED <<p_writes, p_local>>
    /\ UNCHANGED <<p_args, p_env, p_cmds, vc_vars, cl_vars, rel, sgn, vcmd,
                   pg, gl>>

\* lines 86-118: the changelog is built from the conventional commits,
\* written to v<release_version>.md and committed
PrepareConventionalChangelog ==
    /\ p_pc = "changelog"
    /\ p_args.conventional_commits
    /\ IF DOMAIN _sort_commits(commits, commit_types) = {}
       THEN /\ p_pc' = "exit"
            /\ p_ret' = "exit1"
            /\ UNCHANGED <<p_writes, p_cmds, p_local>>
       ELSE /\ p_writes' = [p_writes EXCEPT
                               !.cc_file = <<_sort_commits(commits, commit_types)>>]
            /\ p_cmds' = p_cmds \o commit_files(
                             "changelog output file", "Changelog created for release",
                             p_local.git_signing_key, FALSE)
            /\ p_local' = [p_local EXCEPT
                              !.changelog_bool = FALSE,
                              !.changelog_text = "conventional commits"]
            /\ p_pc' = "commit"
            /\ p_ret' = "none"
    /\ UNCHANGED <<p_args, p_env, vc_vars, cl_vars, rel, sgn, vcmd, pg, gl>>

\* pontos.changelog.update: the unreleased section that is looked for is
\* made the section of the release; it returns the updated changelog and the
\* text of the section, both empty when there is no such section
changelog_update(found, section) ==
    IF found
    THEN [updated |-> "updated changelog", changelog_text |-> section]
    ELSE [updated |-> "", changelog_text |-> ""]

\* a plausible slip: an empty result is taken for an updated changelog
NotUpdatedNever(updated) == FALSE

\* a plausible slip: the second search is made whatever the first one found
NotUpdatedAlways(updated) == TRUE

\* `if not updated`
NotUpdated(updated) == updated = ""

\* the keyword `terminal` is not a parameter of ChangelogBuilder.__init__
\* (conventional_commits.py:41-45): the construction raises TypeError
PrepareChangelogBuilderRejected ==
    /\ p_pc = "changelog"
    /\ p_args.conventional_commits
    /\ p_pc' = "raised"
    /\ p_ret' = "TypeError"
    /\ UNCHANGED <<p_args, p_env, p_local, p_writes, p_cmds, vc_vars, cl_vars,
                   rel, sgn, vcmd, pg, gl>>

\* lines 119-150: the section of the release version is looked for in the
\* changelog file, then the unversioned one; sys.exit(1) when both are missing
PrepareManualChangelog ==
    /\ p_pc = "changelog"
    /\ ~p_args.conventional_commits
    /\ LET first == changelog_update(p_env.versioned_section,
                                     "versioned section")
           again == NotUpdated(first.updated)
           found == IF again
                    THEN changelog_update(p_env.unreleased_section,
                                          "unreleased section")
                    ELSE first
           searches == <<"containing_version">>
                           \o (IF again THEN <<"unversioned">> ELSE <<>>)
       IN  IF NotUpdated(found.updated)
           THEN /\ p_pc' = "exit"
                /\ p_ret' = "exit1"
                /\ p_local' = [p_local EXCEPT !.searches = searches]
                /\ UNCHANGED p_writes
           ELSE /\ p_writes' = [p_writes EXCEPT
                                   !.changelog_file = <<p_local.release_version>>]
                /\ p_local' = [p_local EXCEPT
                                  !.changelog_text = found.changelog_text,
                                  !.searches = searches]
                /\ p_pc' = "commit"
                /\ p_ret' = "none"
    /\ UNCHANGED <<p_args, p_env, p_cmds, vc_vars, cl_vars, rel, sgn, vcmd,
                   pg, gl>>

\* a plausible slip: the tag is made without the release commit
PrepareCommitLeftOut ==
    /\ p_pc = "commit"
    /\ p_pc' = "tag"
    /\ UNCHANGED <<p_args, p_env, p_local, p_writes, p_cmds, p_ret, vc_vars,
                   cl_vars, rel, sgn, vcmd, pg, gl>>

\* lines 152-161: the release commit
PrepareCommit ==
    /\ p_pc = "commit"
    /\ p_cmds' = p_cmds \o commit_files(p_local.filename, "Automatic release",
                                        p_local.git_signing_key,
                                        p_local.changelog_bool)
    /\ p_pc' = "tag"
    /\ UNCHANGED <<p_args, p_env, p_local, p_writes, p_ret, vc_vars, cl_vars,
                   rel, sgn, vcmd, pg, gl>>

\* lines 163-168: the tag, signed when there is a signing key
PrepareTag ==
    /\ p_pc = "tag"
    /\ p_cmds' = Append(p_cmds,
           IF p_local.git_signing_key # ""
           THEN [cmd |-> "git tag -u", arg |-> p_local.git_signing_key,
                 msg |-> "Automatic release"]
           ELSE [cmd |-> "git tag", arg |-> "", msg |-> "Automatic release"])
    /\ p_writes' = [p_writes EXCEPT
                       !.tag = <<git_version(p_args.git_tag_prefix,
                                             p_local.release_version)>>]
    /\ p_pc' = "release_text"
    /\ UNCHANGED <<p_args, p_env, p_local, p_ret, vc_vars, cl_vars, rel, sgn,
                   vcmd, pg, gl>>

\* lines 170-179: the release text is written and prepare returns True
PrepareWriteReleaseText ==
    /\ p_pc = "release_text"
    /\ p_writes' = [p_writes EXCEPT !.release_text = <<p_local.changelog_text>>]
    /\ p_pc' = "done"
    /\ p_ret' = "True"
    /\ UNCHANGED <<p_args, p_env, p_local, p_cmds, vc_vars, cl_vars, rel,
                   sgn, vcmd, pg, gl>>

PrepareNext ==
    \/ PrepareChooseVersion
    \/ PrepareGuard
    \/ PrepareUpdateVersion
    \/ PrepareConventionalChangelog
    \/ PrepareChangelogBuilderRejected
    \/ PrepareManualChangelog
    \/ PrepareCommit
    \/ PrepareTag
    \/ PrepareWriteReleaseText

----------------------------------------------------------------------------
(* pontos/version/version.py: VersionCommand *)

\* packaging.version.Version also takes a version with one leading "v"
parse_version(version) ==
    Version(IF version # <<>> /\ version[1] = VTok
            THEN Tail(version) ELSE version)

\* pontos.version.helper.safe_version: str(Version(version)); a string that
\* is no version is kept (its letters and digits are not touched)
safe_version(version) ==
    IF parse_version(version).valid
    THEN VersionStr(parse_version(version))
    ELSE version

\* pontos.version.helper.check_develop: the version has a dev segment
check_develop(version) ==
    parse_version(version).valid /\ parse_version(version).dev # <<>>

\* pontos.version.helper.is_version_pep440_compliant: the string is a
\* version and is written in its normal form
is_version_pep440_compliant(version) ==
    parse_version(version).valid /\ version = safe_version(version)

\* a plausible slip: the leading "v" is kept
strip_version_kept(version) == version

\* strip_version: one leading "v" is stripped
strip_version(version) ==
    IF version # <<>> /\ version[1] = VTok THEN Tail(version) ELSE version

\* a plausible slip: the versions are compared as they are written
versions_equal_as_written(new_version, old_version) ==
    old_version = new_version

\* versions_equal
versions_equal(new_version, old_version) ==
    safe_version(old_version) = safe_version(new_version)

\* a plausible slip: .dev1 is appended whenever develop is set
updated_version_appended(version, develop) ==
    IF develop
    THEN safe_version(version) \o <<DevTok, Num(1)>>
    ELSE safe_version(version)

\* lines 163-167 of update_version: the version that is going to be written
updated_version(version, develop) ==
    LET new_version == safe_version(version)
    IN  IF develop /\ ~check_develop(new_version)
        THEN new_version \o <<DevTok, Num(1)>>
        ELSE new_version

\* the literal 'current' as the argument of verify
CurrentTok == [k |-> "current", v |-> 0]

\* the versions found in the two files and asked for on the command line:
\* "1.0", "1.0.dev1", "1.0.dev", "v1.0", "1.1" and a string that is no
\* version
VcmdVersions ==
    {<<Num(1), Num(0)>>, <<Num(1), Num(0), DevTok, Num(1)>>,
     <<Num(1), Num(0), DevTok>>, <<VTok, Num(1), Num(0)>>,
     <<Num(1), Num(1)>>, <<JunkTok>>}

\* the content of a file: <<>> when the version (or the file) is missing,
\* <<version>> otherwise
VcmdFiles == {<<>>} \cup {<<v>> : v \in VcmdVersions}

\* the calls of update_version and verify_version
VcmdCalls ==
    [op : {"update"}, version : VcmdVersions, develop : BOOLEAN,
     force : BOOLEAN]
        \cup [op : {"verify"},
              version : VcmdVersions \cup {<<CurrentTok>>, <<VTok, CurrentTok>>},
              develop : {FALSE}, force : {FALSE}]

VcmdInit ==
    /\ \E py \in VcmdFiles, mod \in VcmdFiles, c \in VcmdCalls,
          r \in BOOLEAN :
           /\ r => c.op = "update" /\ ~parse_version(c.version).valid
           /\ vcmd = [VcmdIdle EXCEPT
                         !.start = [pyproject |-> py, module |-> mod],
                         !.pyproject = py, !.module = mod, !.call = c,
                         !.check_develop_raises = r, !.pc = "start"]
    /\ version_str = <<>> /\ today = [yy |-> 0, mm |-> 1]
    /\ vc_result = NoCall
    /\ commits = <<>> /\ commit_types = <<>>
    /\ commit_dict = EmptyDict /\ cl_pc = "idle"
    /\ cb_next_version = "" /\ cb_current_version = "" /\ output_file = <<>>
    /\ p_args = IdleArgs /\ p_env = IdleEnv /\ p_pc = "idle"
    /\ p_local = NoLocals /\ p_writes = NoWrites
    /\ p_cmds = <<>> /\ p_ret = "none"
    /\ rel = RelIdle /\ sgn = SgnIdle
    /\ pg = PgIdle /\ gl = GlIdle

\* how a call of VersionCommand ends without having written
VcmdEnds(pc, ret) == [vcmd EXCEPT !.pc = pc, !.ret = ret]

\* lines 182-184: _update_pyproject_version, then _update_version_file,
\* each writing safe_version(new_version)
VcmdWrites(new_version, touch) ==
    [vcmd EXCEPT
        !.pc = "done", !.ret = "None",
        !.pyproject = <<safe_version(new_version)>>,
        !.module = <<safe_version(new_version)>>,
        !.log = (IF touch THEN <<"touch version module">> ELSE <<>>)
                    \o <<"write pyproject.toml", "write version module">>]

\* VersionCommand.update_version (lines 159-188); check_develop of a string
\* that is no version either raises or answers False
UpdateVersion ==
    /\ vcmd.pc = "start"
    /\ vcmd.call.op = "update"
    /\ LET new_version ==
               updated_version(vcmd.call.version, vcmd.call.develop)
       IN  vcmd' =
               IF vcmd.check_develop_raises
               THEN VcmdEnds("raised", "InvalidVersion")
               ELSE IF vcmd.pyproject = <<>>
               THEN VcmdEnds("raised", "VersionError")
               ELSE IF vcmd.module = <<>>
               THEN VcmdWrites(new_version, TRUE)
               ELSE IF ~vcmd.call.force
                       /\ versions_equal(new_version, vcmd.module[1])
               THEN VcmdEnds("done", "None")
               ELSE VcmdWrites(new_version, FALSE)
    /\ UNCHANGED <<vc_vars, cl_vars, p_vars, rel, sgn, pg, gl>>

\* VersionCommand.verify_version (lines 190-217)
VerifyVersion ==
    /\ vcmd.pc = "start"
    /\ vcmd.call.op = "verify"
    /\ vcmd' =
           IF vcmd.module = <<>>
           THEN VcmdEnds("raised", "VersionError")
           ELSE IF ~is_version_pep440_compliant(vcmd.module[1])
           THEN VcmdEnds("raised", "VersionError")
           ELSE IF vcmd.pyproject = <<>>
           THEN VcmdEnds("raised", "VersionError")
           ELSE IF vcmd.pyproject[1] # vcmd.module[1]
           THEN VcmdEnds("raised", "VersionError")
           ELSE IF vcmd.call.version # <<CurrentTok>>
                   /\ strip_version(vcmd.call.version) # vcmd.module[1]
           THEN VcmdEnds("raised", "VersionError")
           ELSE VcmdEnds("done", "None")
    /\ UNCHANGED <<vc_vars, cl_vars, p_vars, rel, sgn, pg, gl>>

VcmdNext ==
    \/ UpdateVersion
    \/ VerifyVersion

----------------------------------------------------------------------------
(* pontos/github/api: requests that are answered page by page *)

\* the Link header of the response for page i, as httpx gives it: a dict
\* from the relation name to the link; the page before i is i - 1, the page
\* after it i + 1; a dict without entries is the empty function <<>>
NoLinks == <<>>
PrevLink(i) == [r \in {"prev"} |-> [url |-> i - 1]]
NextLink(i) == [r \in {"next"} |-> [url |-> i + 1]]
PrevAndNextLink(i) ==
    [r \in {"prev", "next"} |->
        [url |-> IF r = "prev" THEN i - 1 ELSE i + 1]]

Links(i) == {NoLinks, PrevLink(i), NextLink(i), PrevAndNextLink(i)}

\* the responses of the server: page i is the answer to URL i; the last
\* page names no page after it
PageLists ==
    UNION {{pages \in [1..n -> UNION {Links(i) : i \in 1..n}] :
                /\ \A i \in 1..n : pages[i] \in Links(i)
                /\ "next" \notin DOMAIN pages[n]} : n \in 1..MaxPages}

\* a plausible slip: the next link is not looked at
_get_next_url_dropped(links) == 0

\* _get_next_url(response): the URL of the "next" link, None (0) when the
\* response has no links or the links have no "next" entry
_get_next_url(links) ==
    IF links # <<>> /\ "next" \in DOMAIN links
    THEN links["next"].url
    ELSE 0

PagingInit ==
    /\ \E pages \in PageLists :
           pg = [PgIdle EXCEPT !.pages = pages, !.pc = "request", !.url = 1]
    /\ version_str = <<>> /\ today = [yy |-> 0, mm |-> 1]
    /\ vc_result = NoCall
    /\ commits = <<>> /\ commit_types = <<>>
    /\ commit_dict = EmptyDict /\ cl_pc = "idle"
    /\ cb_next_version = "" /\ cb_current_version = "" /\ output_file = <<>>
    /\ p_args = IdleArgs /\ p_env = IdleEnv /\ p_pc = "idle"
    /\ p_local = NoLocals /\ p_writes = NoWrites
    /\ p_cmds = <<>> /\ p_ret = "none"
    /\ rel = RelIdle /\ sgn = SgnIdle
    /\ vcmd = VcmdIdle /\ gl = GlIdle

\* _request_all: the page at the URL is requested and its content yielded
PagingRequest ==
    /\ pg.pc = "request"
    /\ pg' = [pg EXCEPT !.pc = "next_url", !.response = pg.url,
                        !.yielded = Append(@, pg.url)]
    /\ UNCHANGED <<vc_vars, cl_vars, p_vars, rel, sgn, vcmd, gl>>

\* _request_all: next_url = _get_next_url(response); `while next_url`
PagingNextUrl ==
    /\ pg.pc = "next_url"
    /\ LET next_url == _get_next_url(pg.pages[pg.response])
       IN  pg' = [pg EXCEPT !.url = next_url,
                            !.pc = IF next_url # 0 THEN "request" ELSE "done"]
    /\ UNCHANGED <<vc_vars, cl_vars, p_vars, rel, sgn, vcmd, gl>>

PagingNext ==
    \/ PagingRequest
    \/ PagingNextUrl

----------------------------------------------------------------------------
(* pontos/changelog/conventional_commits.py: _get_git_log *)

\* the lines of a git log, the newest first
LogLines == {"a1b2c3d Add: x", "d4e5f6a Fix: y"}

GitLogs == UNION {[1..n -> LogLines] : n \in 0..MaxLogLines}

\* the stdout of "git tag | sort -V | tail -1", or the exception it ends with
TagLookups == {"", "v1.0", "CalledProcessError"}

\* the shell commands of _get_git_log
GIT_TAG == <<"git tag | sort -V | tail -1">>
GIT_LOG_HEAD == <<"git log HEAD --oneline">>
git_log_since(tag) == <<"git log ", tag, "..HEAD --oneline">>

\* the repository _get_git_log is run in: the full log of HEAD, the log
\* since the last tag (the newest lines of the full log), and whether git
\* log fails
GitLogInit ==
    /\ \E t \in TagLookups, full \in GitLogs, n \in 0..MaxLogLines,
          fails \in BOOLEAN :
           /\ n <= Len(full)
           /\ t # "v1.0" => n = Len(full)
           /\ gl = [GlIdle EXCEPT
                       !.tag_lookup = t, !.full = full,
                       !.since = SubSeq(full, 1, n),
                       !.log_fails = fails, !.pc = "start"]
    /\ version_str = <<>> /\ today = [yy |-> 0, mm |-> 1]
    /\ vc_result = NoCall
    /\ commits = <<>> /\ commit_types = <<>>
    /\ commit_dict = EmptyDict /\ cl_pc = "idle"
    /\ cb_next_version = "" /\ cb_current_version = "" /\ output_file = <<>>
    /\ p_args = IdleArgs /\ p_env = IdleEnv /\ p_pc = "idle"
    /\ p_local = NoLocals /\ p_writes = NoWrites
    /\ p_cmds = <<>> /\ p_ret = "none"
    /\ rel = RelIdle /\ sgn = SgnIdle
    /\ vcmd = VcmdIdle /\ pg = PgIdle

\* lines 84-93: the last tag is looked up. When the lookup raises
\* CalledProcessError the handler only warns, `proc` stays unbound and
\* reading proc.stdout in line 92 raises UnboundLocalError
GitLogLastTag ==
    /\ gl.pc = "start"
    /\ gl' =
           IF gl.tag_lookup = "CalledProcessError"
           THEN [gl EXCEPT !.pc = "raised", !.ret = "UnboundLocalError",
                           !.cmd = GIT_LOG_HEAD, !.cmds = <<GIT_TAG>>]
           ELSE [gl EXCEPT
                    !.pc = "log", !.cmds = <<GIT_TAG>>,
                    !.cmd = IF gl.tag_lookup # ""
                            THEN git_log_since(gl.tag_lookup)
                            ELSE GIT_LOG_HEAD]
    /\ UNCHANGED <<vc_vars, cl_vars, p_vars, rel, sgn, vcmd, pg>>

\* lines 95-98: the log is read; its lines are returned, None when the
\* output is empty
GitLogRun ==
    /\ gl.pc = "log"
    /\ LET stdout == IF gl.cmd = GIT_LOG_HEAD THEN gl.full ELSE gl.since
       IN  gl' =
               IF gl.log_fails
               THEN [gl EXCEPT !.pc = "raised", !.ret = "CalledProcessError",
                               !.cmds = Append(@, gl.cmd)]
               ELSE [gl EXCEPT
                        !.pc = "done", !.cmds = Append(@, gl.cmd),
                        !.ret = IF stdout # <<>> THEN "lines" ELSE "None",
                        !.lines = stdout]
    /\ UNCHANGED <<vc_vars, cl_vars, p_vars, rel, sgn, vcmd, pg>>

GitLogNext ==
    \/ GitLogLastTag
    \/ GitLogRun

----------------------------------------------------------------------------
(* pontos/release/release.py: release, one statement group per step *)

\* one entry of the log of what a run has done: a shell command, a call of
\* the GitHub API or a file operation
Step(cmd, arg) == [cmd |-> cmd, arg |-> arg, msg |-> ""]

\* a plausible slip: the version is bumped before the changelog skeleton is
\* added
ReleaseNextStepBumpFirst(pc) ==
    CASE pc = "push" -> "create"
      [] pc = "create" -> "unlink"
      [] pc = "unlink" -> "update"
      [] pc = "update" -> "skeleton"
      [] pc = "skeleton" -> "commit"
      [] pc = "commit" -> "push_again"
      [] OTHER -> "done"

\* the statement order of release (lines 81-149)
ReleaseNextStep(pc) ==
    CASE pc = "push" -> "create"
      [] pc = "create" -> "unlink"
      [] pc = "unlink" -> "skeleton"
      [] pc = "skeleton" -> "update"
      [] pc = "update" -> "commit"
      [] pc = "commit" -> "push_again"
      [] OTHER -> "done"

\* a plausible slip: the error of create_release is reported and release
\* goes on
HTTPErrorIgnored(outcome) == FALSE

\* `except httpx.HTTPError`: create_release raised
HTTPErrorCaught(outcome) == outcome = "HTTPError"

\* a plausible slip: the skeleton is added in every mode
AddSkeletonAlways(args) == TRUE

\* `if not args.conventional_commits`
AddSkeleton(args) == ~args.conventional_commits

\* the changelog file release works on: args.changelog when it is a file
change_log_path(args) ==
    IF args.changelog = "file" THEN "args.changelog" ELSE "CHANGELOG.md"

\* the command lines and surroundings release is run on; the project and
\* the space are given on the command line
ReleaseInputs ==
    {r \in [args : [token : {"", "token"},
                    release_version : {<<>>, <<Num(1), Num(1), Num(1)>>},
                    next_version : {<<>>, <<Num(1), Num(1), Num(2), DevTok>>},
                    git_remote_name : {"None", "upstream"},
                    git_signing_key : {"None", "", "KEY"},
                    conventional_commits : BOOLEAN,
                    changelog : {"None", "file", "not a file"}],
            env : [project_file : BOOLEAN,
                   user_signingkey : {"", "KEY"},
                   release_text : BOOLEAN,
                   create_release : {"created", "HTTPError"},
                   changelog_exists : BOOLEAN]] :
        \* only the inputs that are read vary
        /\ r.args.git_signing_key # "None" => r.env.user_signingkey = ""
        /\ r.args.changelog = "file" => r.env.changelog_exists
        /\ r.args.conventional_commits => r.env.changelog_exists
        /\ r.args.token = "" =>
               /\ r.env = RelIdle.env
               /\ r.args = [RelIdle.args EXCEPT
                               !.git_remote_name = r.args.git_remote_name]}

ReleaseInit ==
    /\ \E r \in ReleaseInputs :
           rel = [RelIdle EXCEPT !.args = r.args, !.env = r.env, !.pc = "start"]
    /\ version_str \in {<<Num(1), Num(1), Num(1)>>, <<JunkTok>>}
    /\ rel.args.release_version # <<>> => version_str = <<JunkTok>>
    /\ today = [yy |-> 0, mm |-> 1]
    /\ vc_result = NoCall
    /\ commits = <<>> /\ commit_types = <<>>
    /\ commit_dict = EmptyDict /\ cl_pc = "idle"
    /\ cb_next_version = "" /\ cb_current_version = "" /\ output_file = <<>>
    /\ p_args = IdleArgs /\ p_env = IdleEnv /\ p_pc = "idle"
    /\ p_local = NoLocals /\ p_writes = NoWrites
    /\ p_cmds = <<>> /\ p_ret = "none"
    /\ sgn = SgnIdle
    /\ vcmd = VcmdIdle /\ pg = PgIdle /\ gl = GlIdle

\* how release ends
ReleaseEnds(pc, ret) == [rel EXCEPT !.pc = pc, !.ret = ret]

\* lines 48-79: the token is required; the signing key, the release version
\* and the next version are taken from the command line or looked up
ReleaseStart ==
    /\ rel.pc = "start"
    /\ IF rel.args.token = ""
       THEN rel' = ReleaseEnds("done", "False")
       ELSE LET lookup == rel.args.git_signing_key = "None"
                key == IF lookup THEN rel.env.user_signingkey
                       ELSE rel.args.git_signing_key
                log == IF lookup
                       THEN <<Step("git config", "user.signingkey")>>
                       ELSE <<>>
                release_version ==
                    IF rel.args.release_version # <<>>
                    THEN Return(rel.args.release_version)
                    ELSE IF rel.env.project_file THEN Return(version_str)
                    ELSE Exit(1)
                next_version ==
                    IF rel.args.next_version # <<>>
                    THEN Return(rel.args.next_version)
                    ELSE get_next_dev_version(release_version.value)
            IN  IF release_version.kind = "exit"
                THEN rel' = [ReleaseEnds("exit", "exit1") EXCEPT
                                !.log = log, !.git_signing_key = key]
                ELSE IF next_version.kind = "raise"
                THEN rel' = [ReleaseEnds("raised", next_version.exc) EXCEPT
                                !.log = log, !.git_signing_key = key,
                                !.release_version = release_version.value]
                ELSE rel' = [rel EXCEPT
                                !.pc = "push", !.log = log,
                                !.git_signing_key = key,
                                !.release_version = release_version.value,
                                !.next_version = next_version.value]
    /\ UNCHANGED <<vc_vars, cl_vars, p_vars, sgn, vcmd, pg, gl>>

\* pontos.helper.shell_cmd_runner: how a shell command ends; a command that
\* fails raises CalledProcessError
shell_cmd_runner == {"done", "CalledProcessError"}

\* f"git push --follow-tags {git_remote_name}"
git_push(next) ==
    \E out \in shell_cmd_runner :
        rel' = IF out = "done"
               THEN [rel EXCEPT
                        !.pc = next,
                        !.ret = IF next = "done" THEN "True" ELSE "none",
                        !.log = Append(@, Step("git push --follow-tags",
                                   IF rel.args.git_remote_name = "None"
                                   THEN "" ELSE rel.args.git_remote_name))]
               ELSE ReleaseEnds("raised", out)

\* line 83: the release commit and the tag are pushed
ReleasePush ==
    /\ rel.pc = "push"
    /\ git_push(ReleaseNextStep("push"))
    /\ UNCHANGED <<vc_vars, cl_vars, p_vars, sgn, vcmd, pg, gl>>

\* lines 85-102: the release text is read and the release is created on
\* GitHub; an HTTPError makes release return False
ReleaseCreate ==
    /\ rel.pc = "create"
    /\ IF ~rel.env.release_text
       THEN rel' = ReleaseEnds("raised", "FileNotFoundError")
       ELSE LET log == rel.log \o <<Step("read_text", RELEASE_TEXT_FILE),
                                    Step("create_release", "git_version")>>
            IN  IF HTTPErrorCaught(rel.env.create_release)
                THEN rel' = [ReleaseEnds("done", "False") EXCEPT !.log = log]
                ELSE rel' = [rel EXCEPT !.pc = ReleaseNextStep("create"),
                                        !.log = log]
    /\ UNCHANGED <<vc_vars, cl_vars, p_vars, sgn, vcmd, pg, gl>>

\* line 104: the release text file is removed
ReleaseUnlink ==
    /\ rel.pc = "unlink"
    /\ rel' = [rel EXCEPT
                  !.pc = ReleaseNextStep("unlink"),
                  !.log = Append(@, Step("unlink", RELEASE_TEXT_FILE))]
    /\ UNCHANGED <<vc_vars, cl_vars, p_vars, sgn, vcmd, pg, gl>>

\* the commit message started in lines 106-109
commit_msg_start ==
    <<"Automatic adjustments after release", "* Update to version ",
      rel.next_version>>

\* lines 106-132: the commit message is started; without conventional
\* commits the changelog file is read, the skeleton is added to it and it is
\* written back
ReleaseSkeleton ==
    /\ rel.pc = "skeleton"
    /\ IF ~AddSkeleton(rel.args)
       THEN rel' = [rel EXCEPT !.pc = ReleaseNextStep("skeleton"),
                               !.commit_msg = commit_msg_start,
                               !.changelog_bool = FALSE]
       ELSE IF ~rel.env.changelog_exists
       THEN rel' = [ReleaseEnds("raised", "FileNotFoundError") EXCEPT
                       !.commit_msg = commit_msg_start]
       ELSE rel' = [rel EXCEPT
                       !.pc = ReleaseNextStep("skeleton"),
                       !.log = @ \o <<Step("read_text",
                                           change_log_path(rel.args)),
                                      Step("add_skeleton", "release_version"),
                                      Step("write_text",
                                           change_log_path(rel.args))>>,
                       !.changelog_bool = TRUE,
                       !.commit_msg = commit_msg_start
                           \o <<"* Add empty changelog after ",
                                rel.release_version>>]
    /\ UNCHANGED <<vc_vars, cl_vars, p_vars, sgn, vcmd, pg, gl>>

\* a plausible slip: the answer of update_version is not looked at
NotExecutedIgnored(executed) == FALSE

\* line 135: `if not executed`
NotExecuted(executed) == ~executed

\* lines 134-136: update_version(terminal, next_version, develop=True);
\* release returns False when it reports that nothing was executed
ReleaseUpdateVersion ==
    /\ rel.pc = "update"
    /\ \E executed \in BOOLEAN :
           /\ executed => rel.env.project_file
           /\ LET step == [cmd |-> "update_version", arg |-> "--develop",
                           msg |-> IF executed THEN "" ELSE "not executed"]
              IN  rel' = IF NotExecuted(executed)
                         THEN [ReleaseEnds("done", "False") EXCEPT
                                  !.log = Append(@, step)]
                         ELSE [rel EXCEPT
                                  !.pc = ReleaseNextStep("update"),
                                  !.filename = IF executed
                                               THEN "pyproject.toml" ELSE "",
                                  !.log = Append(@, step)]
    /\ UNCHANGED <<vc_vars, cl_vars, p_vars, sgn, vcmd, pg, gl>>

\* lines 138-144: commit_files; a failing shell command ends release with
\* the commands before it done
ReleaseCommit ==
    /\ rel.pc = "commit"
    /\ LET cmds == commit_files(rel.filename, rel.commit_msg,
                                rel.git_signing_key, rel.changelog_bool)
       IN  \E out \in shell_cmd_runner :
               IF out = "done"
               THEN rel' = [rel EXCEPT !.pc = ReleaseNextStep("commit"),
                                       !.log = @ \o cmds]
               ELSE \E n \in 0..(Len(cmds) - 1) :
                        rel' = [ReleaseEnds("raised", out) EXCEPT
                                   !.log = @ \o SubSeq(cmds, 1, n)]
    /\ UNCHANGED <<vc_vars, cl_vars, p_vars, sgn, vcmd, pg, gl>>

\* lines 146-149: the commit is pushed and release returns True
ReleasePushAgain ==
    /\ rel.pc = "push_again"
    /\ git_push(ReleaseNextStep("push_again"))
    /\ UNCHANGED <<vc_vars, cl_vars, p_vars, sgn, vcmd, pg, gl>>

ReleaseNext ==
    \/ ReleaseStart
    \/ ReleasePush
    \/ ReleaseCreate
    \/ ReleaseUnlink
    \/ ReleaseSkeleton
    \/ ReleaseUpdateVersion
    \/ ReleaseCommit
    \/ ReleasePushAgain

----------------------------------------------------------------------------
(* pontos/release/sign.py: sign, one call per step *)

\* a plausible slip: the token is required in a dry run too
TokenMissingInAnyMode(token, dry_run) == token = ""

\* `if not token and not args.dry_run`
TokenMissing(token, dry_run) == token = "" /\ ~dry_run

\* a plausible slip: the answer of release_exists is not looked at
ReleaseMissingIgnored(exists) == FALSE

\* `if not github.release_exists(repo, git_version)`
ReleaseMissing(exists) == ~exists

\* terminal.download_progress: the download is run to its end, the file is
\* there when it returns
download_progress(cmd, destination) == Step(cmd, destination)

\* a plausible slip: the file itself is put on the list, not its signature
upload_file_unsigned(file_path) ==
    <<file_path, "", "application/pgp-signature">>

\* the signature file of a file and its content type
upload_file(file_path) == <<file_path, ".asc", "application/pgp-signature">>

\* the assets a release can have
AssetLists == {<<>>, <<"asset1">>, <<"asset1", "asset2">>}

\* the command lines and surroundings sign is run on; the project, the
\* space and the signing key are given on the command line
SignInputs ==
    {g \in [args : [token : {"", "token"},
                    dry_run : BOOLEAN,
                    release_version : {<<>>, <<Num(1), Num(1), Num(1)>>},
                    passphrase : {"", "passphrase"}],
            env : [project_file : BOOLEAN,
                   release_exists : BOOLEAN,
                   assets : AssetLists]] :
        \* only the inputs that are read vary
        /\ g.args.release_version # <<>> => g.env.project_file
        /\ ~g.env.release_exists => g.env.assets = <<>>}

SignInit ==
    /\ \E g \in SignInputs :
           sgn = [SgnIdle EXCEPT !.args = g.args, !.env = g.env, !.pc = "start"]
    /\ version_str = <<Num(1), Num(1), Num(1)>>
    /\ today = [yy |-> 0, mm |-> 1]
    /\ vc_result = NoCall
    /\ commits = <<>> /\ commit_types = <<>>
    /\ commit_dict = EmptyDict /\ cl_pc = "idle"
    /\ cb_next_version = "" /\ cb_current_version = "" /\ output_file = <<>>
    /\ p_args = IdleArgs /\ p_env = IdleEnv /\ p_pc = "idle"
    /\ p_local = NoLocals /\ p_writes = NoWrites
    /\ p_cmds = <<>> /\ p_ret = "none"
    /\ rel = RelIdle
    /\ vcmd = VcmdIdle /\ pg = PgIdle /\ gl = GlIdle

\* how sign ends
SignEnds(pc, ret) == [sgn EXCEPT !.pc = pc, !.ret = ret]

\* lines 38-62: without a token sign returns False unless it is a dry run;
\* the release version is taken from the command line or looked up
SignStart ==
    /\ sgn.pc = "start"
    /\ sgn' = IF TokenMissing(sgn.args.token, sgn.args.dry_run)
              THEN SignEnds("done", "False")
              ELSE IF sgn.args.release_version # <<>>
              THEN [sgn EXCEPT !.pc = "release_exists",
                               !.release_version = sgn.args.release_version]
              ELSE IF sgn.env.project_file
              THEN [sgn EXCEPT !.pc = "release_exists",
                               !.release_version = version_str]
              ELSE SignEnds("exit", "exit1")
    /\ UNCHANGED <<vc_vars, cl_vars, p_vars, rel, vcmd, pg, gl>>

\* lines 64-68: sign returns False when the release does not exist
SignReleaseExists ==
    /\ sgn.pc = "release_exists"
    /\ sgn' = IF ReleaseMissing(sgn.env.release_exists)
              THEN [SignEnds("done", "False") EXCEPT
                       !.log = Append(@, Step("release_exists", "git_version"))]
              ELSE [sgn EXCEPT
                       !.pc = "download_zip",
                       !.log = Append(@, Step("release_exists", "git_version"))]
    /\ UNCHANGED <<vc_vars, cl_vars, p_vars, rel, vcmd, pg, gl>>

\* a download of sign: the file is fetched, or the request raises
Download(cmd, destination, next) ==
    \E out \in {"done", "HTTPError"} :
        sgn' = IF out = "done"
               THEN [sgn EXCEPT
                        !.pc = next,
                        !.log = Append(@, download_progress(cmd, destination)),
                        !.file_paths = Append(@, destination)]
               ELSE SignEnds("raised", out)

\* lines 70-74: the zip of the release
SignDownloadZip ==
    /\ sgn.pc = "download_zip"
    /\ Download("download_release_zip", "zip_destination", "download_tarball")
    /\ UNCHANGED <<vc_vars, cl_vars, p_vars, rel, vcmd, pg, gl>>

\* lines 76-82: the tarball of the release
SignDownloadTarball ==
    /\ sgn.pc = "download_tarball"
    /\ Download("download_release_tarball", "tarball_destination",
                "download_assets")
    /\ UNCHANGED <<vc_vars, cl_vars, p_vars, rel, vcmd, pg, gl>>

\* lines 84-86: the next asset of the release, until there is none left
SignDownloadAsset ==
    /\ sgn.pc = "download_assets"
    /\ LET k == Len(sgn.file_paths) - 2
       IN  IF k < Len(sgn.env.assets)
           THEN Download("download_release_assets", sgn.env.assets[k + 1],
                         "download_assets")
           ELSE sgn' = [sgn EXCEPT !.pc = "sign", !.done = 0]
    /\ UNCHANGED <<vc_vars, cl_vars, p_vars, rel, vcmd, pg, gl>>

\* lines 88-103: the next file is signed with gpg; a failing gpg raises
SignFile ==
    /\ sgn.pc = "sign"
    /\ sgn.done < Len(sgn.file_paths)
    /\ \E out \in shell_cmd_runner :
           sgn' = IF out = "done"
                  THEN [sgn EXCEPT
                           !.done = @ + 1,
                           !.log = Append(@,
                               [cmd |-> IF sgn.args.passphrase # ""
                                        THEN "gpg --pinentry-mode loopback"
                                        ELSE "gpg",
                                arg |-> sgn.file_paths[sgn.done + 1],
                                msg |-> sgn.args.passphrase])]
                  ELSE SignEnds("raised", out)
    /\ UNCHANGED <<vc_vars, cl_vars, p_vars, rel, vcmd, pg, gl>>

\* lines 105-111: after the last file a dry run returns True; otherwise
\* the list of the signature files is made
SignAllSigned ==
    /\ sgn.pc = "sign"
    /\ sgn.done = Len(sgn.file_paths)
    /\ sgn' = IF sgn.args.dry_run
              THEN SignEnds("done", "True")
              ELSE [sgn EXCEPT !.pc = "upload", !.done = 0]
    /\ UNCHANGED <<vc_vars, cl_vars, p_vars, rel, vcmd, pg, gl>>

\* lines 113-122: the signature files are uploaded one after the other; an
\* HTTPError makes sign return False, after the last one it returns True
SignUpload ==
    /\ sgn.pc = "upload"
    /\ IF sgn.done < Len(sgn.file_paths)
       THEN \E out \in {"uploaded", "HTTPError"} :
                sgn' = IF out = "uploaded"
                       THEN [sgn EXCEPT
                                !.done = @ + 1,
                                !.log = Append(@,
                                    [cmd |-> "upload_release_assets",
                                     arg |-> upload_file(
                                                 sgn.file_paths[sgn.done + 1]),
                                     msg |-> ""])]
                       ELSE SignEnds("done", "False")
       ELSE sgn' = SignEnds("done", "True")
    /\ UNCHANGED <<vc_vars, cl_vars, p_vars, rel, vcmd, pg, gl>>

SignNext ==
    \/ SignStart
    \/ SignReleaseExists
    \/ SignDownloadZip
    \/ SignDownloadTarball
    \/ SignDownloadAsset
    \/ SignFile
    \/ SignAllSigned
    \/ SignUpload

vars == <<vc_vars, cl_vars, p_vars, rel, sgn, vcmd, pg, gl>>

SpecVersion == VcInit /\ [][VcNext]_vars

SpecChangelog == ClInit /\ [][ClNext]_vars

SpecRender == RenderInit /\ [][ClNext]_vars

SpecPrepare == PrepareInit /\ [][PrepareNext]_vars

SpecRelease == ReleaseInit /\ [][ReleaseNext]_vars

SpecSign == SignInit /\ [][SignNext]_vars

SpecVersionCommand == VcmdInit /\ [][VcmdNext]_vars

SpecGitLog == GitLogInit /\ [][GitLogNext]_vars

\* the generator of _request_all is run to its end by list(...)
SpecPaging == PagingInit /\ [][PagingNext]_vars /\ WF_vars(PagingNext)

----------------------------------------------------------------------------
(* Claims about the version calculator, checked under SpecVersion *)

\* the current version, parsed
Cur == Version(version_str)
\* (major, minor) of the current version against today's (YY, MM),
\* lexicographically by major then minor
LexBehind ==
    major(Cur) < today.yy \/ (major(Cur) = today.yy /\ minor(Cur) < today.mm)
LexAhead ==
    major(Cur) > today.yy \/ (major(Cur) = today.yy /\ minor(Cur) > today.mm)
SameSlot == major(Cur) = today.yy /\ minor(Cur) = today.mm
HasDev == Cur.dev # <<>>
CalledOn(op) == vc_result.op = op /\ Cur.valid
\* the string "a.b.c"
Dotted(a, b, c) == <<Num(a), Num(b), Num(c)>>

\* C2: calculate_calendar_version fails with exit status 1 for every current
\* version whose (major, minor) is lexicographically ahead of today's
\* (YY, MM), also when major > YY and minor < MM.
C2_AheadExits ==
    (CalledOn("calendar") /\ LexAhead) => vc_result.out = Exit(1)

\* C3: for every current version lexicographically behind today's (YY, MM),
\* calculate_calendar_version returns "YY.MM.0", whatever its micro part and
\* dev marker.
C3_BehindReturnsSlotZero ==
    (CalledOn("calendar") /\ LexBehind)
        => vc_result.out = Return(Dotted(today.yy, today.mm, 0))

C3_Witness ==
    /\ CalledOn("calendar")
    /\ major(Cur) < today.yy /\ minor(Cur) > today.mm
    /\ micro(Cur) > 0 /\ HasDev
    /\ vc_result.out = Return(Dotted(today.yy, today.mm, 0))

\* C4: in today's slot, a dev version is released with its micro number
\* unchanged and the dev marker removed, a final version with micro + 1.
C4_SameSlotDevKeepsFinalIncrements ==
    (CalledOn("calendar") /\ SameSlot)
        => /\ HasDev => vc_result.out =
                  Return(Dotted(today.yy, today.mm, micro(Cur)))
           /\ ~HasDev => vc_result.out =
                  Return(Dotted(today.yy, today.mm, micro(Cur) + 1))

C4_Witness ==
    /\ CalledOn("calendar") /\ SameSlot /\ HasDev /\ micro(Cur) > 0
    /\ vc_result.out = Return(Dotted(today.yy, today.mm, micro(Cur)))

\* C5 as stated: in today's slot, a dev version is released with micro + 1
\* and a final version with its micro number unchanged.
C5_SameSlotDevIncrementsFinalKeeps ==
    (CalledOn("calendar") /\ SameSlot)
        => /\ HasDev => vc_result.out =
                  Return(Dotted(today.yy, today.mm, micro(Cur) + 1))
           /\ ~HasDev => vc_result.out =
                  Return(Dotted(today.yy, today.mm, micro(Cur)))

\* C5 amended: in today's slot the call returns a version YY.MM.m without a
\* dev marker, where m exceeds the current micro number by one exactly when
\* the current version is final, and equals it when it is a dev version.
C5_SameSlotIncrementIffFinal ==
    (CalledOn("calendar") /\ SameSlot)
        => /\ vc_result.out.kind = "return"
           /\ LET r == Version(vc_result.out.value)
              IN  /\ r.valid /\ r.dev = <<>>
                  /\ r.release = <<today.yy, today.mm, micro(r)>>
                  /\ (micro(r) = micro(Cur) + 1) <=> ~HasDev
                  /\ (micro(r) = micro(Cur)) <=> HasDev

C5_Witness ==
    /\ CalledOn("calendar") /\ SameSlot /\ ~HasDev /\ micro(Cur) > 0
    /\ vc_result.out = Return(Dotted(today.yy, today.mm, micro(Cur) + 1))

\* C6: get_next_patch_version returns major.minor.micro for a current
\* version with a dev marker and major.minor.(micro+1) for one without; the
\* result never carries a dev marker.
C6_NextPatch ==
    CalledOn("patch")
        => /\ HasDev => vc_result.out =
                  Return(Dotted(major(Cur), minor(Cur), micro(Cur)))
           /\ ~HasDev => vc_result.out =
                  Return(Dotted(major(Cur), minor(Cur), micro(Cur) + 1))
           /\ \A i \in DOMAIN vc_result.out.value :
                  vc_result.out.value[i] # DevTok

C6_Witness ==
    /\ CalledOn("patch") /\ HasDev /\ micro(Cur) > 0
    /\ vc_result.out = Return(Dotted(major(Cur), minor(Cur), micro(Cur)))

\* C7: get_next_dev_version returns major.minor.(micro+1) without a dev
\* marker for every parseable version, with or without a dev marker, and
\* raises VersionError for every malformed version string.
C7_NextDev ==
    vc_result.op = "dev"
        => /\ Cur.valid => vc_result.out =
                  Return(Dotted(major(Cur), minor(Cur), micro(Cur) + 1))
           /\ ~Cur.valid => vc_result.out = Raise("VersionError")

C7_Witness ==
    /\ vc_result.op = "dev" /\ ~Cur.valid /\ Len(version_str) > 1
    /\ vc_result.out = Raise("VersionError")

----------------------------------------------------------------------------
(* Claims about the commit classifier, checked under SpecChangelog *)

Sorted == cl_pc \in {"sorted", "exit1"}
\* the j-th commit of the log
HashOf(j) == Split(commits[j])[1]
MsgOf(j) == Split(commits[j])[2]
\* the hash an entry was rendered with: it stands before the closing ")"
EntryHash(e) == <<e[Len(e) - 1]>>
\* the places (group, position) of the entries rendered for the j-th commit
EntriesOf(j) ==
    UNION {{<<g, k>> : k \in {x \in DOMAIN commit_dict[g] :
                                 EntryHash(commit_dict[g][x]) = HashOf(j)}} :
           g \in DOMAIN commit_dict}
HasEntry(g, j) == \E p \in EntriesOf(j) : p[1] = g
\* the rules that match the j-th commit, by position in the configuration
Matching(j) ==
    {i \in DOMAIN commit_types : RegMatch(commit_types[i].message, MsgOf(j)) > 0}
FirstOf(S) == CHOOSE i \in S : \A x \in S : i <= x
\* the message begins with the text, letters compared without case
StartsWithCI(msg, text) ==
    /\ Len(msg) >= Len(text)
    /\ \A i \in DOMAIN text : Lower(msg[i]) = Lower(text[i])
\* what follows an entry's message: " [hash](link hash)"
EntryTail(j) ==
    <<" ", "[">> \o HashOf(j) \o <<"]", "(">> \o commit_link \o HashOf(j)
        \o <<")">>

\* C8: every commit produces at most one changelog entry, placed under the
\* group of the first rule, in configuration order, that matches it.
C8_FirstMatchWins ==
    Sorted =>
        \A j \in DOMAIN commits :
            /\ Cardinality(EntriesOf(j)) <= 1
            /\ Matching(j) # {} =>
                   HasEntry(commit_types[FirstOf(Matching(j))].group, j)

\* C9 as stated: a rule matches a commit exactly when the message begins,
\* without regard to case, with the match-text; the colon or hyphen and the
\* whitespace after it are optional, so they ask nothing more of the message.
C9_OptionalSeparator ==
    Sorted =>
        \A j \in DOMAIN commits : \A g \in {"Added", "Fixed"} :
            (g \in DOMAIN commit_dict /\ HasEntry(g, j))
                <=> \E i \in DOMAIN commit_types :
                        /\ commit_types[i].group = g
                        /\ StartsWithCI(MsgOf(j), commit_types[i].message)

\* the message begins with the text, then at most one blank, then one of
\* the characters ':', '-' and '|'
RequiredSepMatch(msg, text) ==
    /\ StartsWithCI(msg, text)
    /\ \E w \in {0, 1} :
           /\ Len(msg) >= Len(text) + w + 1
           /\ w = 1 => msg[Len(text) + 1] = " "
           /\ msg[Len(text) + w + 1] \in {":", "-", "|"}

\* C9 amended: a rule matches a commit (the commit gets an entry in the
\* rule's group) exactly when the message begins at position 0, without
\* regard to case, with the match-text followed by at most one whitespace
\* character and then a required colon, hyphen or vertical bar.
C9_RequiredSeparator ==
    Sorted =>
        \A j \in DOMAIN commits : \A g \in {"Added", "Fixed"} :
            (g \in DOMAIN commit_dict /\ HasEntry(g, j))
                <=> \E i \in DOMAIN commit_types :
                        /\ commit_types[i].group = g
                        /\ RequiredSepMatch(MsgOf(j), commit_types[i].message)

C9_Witness ==
    /\ cl_pc = "sorted"
    /\ Len(commits) = 1 /\ Len(commit_types) = 1
    /\ commit_types[1].message = <<"f", "f">>
    /\ MsgOf(1) = <<"F", "f", " ", "|">>
    /\ HasEntry(commit_types[1].group, 1)

\* C10: the entry of a matched commit is "<cleaned> [<hash>](<link><hash>)",
\* <cleaned> being the message without its leading matched prefix, trimmed;
\* later occurrences of the prefix text stay in place.
C10_OnlyLeadingPrefixRemoved ==
    Sorted =>
        \A j \in DOMAIN commits : \A p \in EntriesOf(j) :
            \E i \in Matching(j) :
                /\ commit_types[i].group = p[1]
                /\ commit_dict[p[1]][p[2]] =
                       Strip(SubSeq(MsgOf(j),
                                    RegMatch(commit_types[i].message, MsgOf(j)) + 1,
                                    Len(MsgOf(j))))
                           \o EntryTail(j)

\* some rule matches the message
MatchedByRule(msg) ==
    \E i \in DOMAIN commit_types :
        RequiredSepMatch(msg, commit_types[i].message)
\* the commits of the log that some rule matches
MatchedCommits ==
    {j \in DOMAIN commits : LET msg == MsgOf(j) IN MatchedByRule(msg)}

\* C11: _sort_commits ends the process with exit status 1 exactly when no
\* commit of the log (the empty log included) matches a rule, and then no
\* changelog file is written; otherwise every entry of the mapping comes from
\* a matched commit, and an unmatched commit leaves no entry and no error.
C11_ExitIffNothingMatches ==
    cl_pc # "start" =>
        LET matched == MatchedCommits
            hashes == {HashOf(j) : j \in matched}
            dropped == {HashOf(j) : j \in DOMAIN commits \ matched}
        IN  /\ cl_pc = "exit1" <=> matched = {}
            /\ cl_pc = "exit1" => output_file = <<>>
            /\ cl_pc # "exit1" =>
                   \A g \in DOMAIN commit_dict : \A k \in DOMAIN commit_dict[g] :
                       /\ EntryHash(commit_dict[g][k]) \in hashes
                       /\ EntryHash(commit_dict[g][k]) \notin dropped

C11_Witness ==
    /\ cl_pc = "exit1"
    /\ Len(commits) = 2 /\ commit_types # <<>>
    /\ MatchedCommits = {}
    /\ output_file = <<>>

----------------------------------------------------------------------------
(* Claims about the rendered changelog, checked under SpecRender *)

\* the places of the subheadings in the written text
HeadingAt == {i \in DOMAIN output_file : output_file[i] = "\n## "}
\* the number of subheadings up to a place of the text
HeadingsUpTo(p) == Cardinality({h \in HeadingAt : h <= p})
\* the groups of the subheadings, in the order of the text
RenderedGroups ==
    [x \in 1..Cardinality(HeadingAt) |->
        output_file[(CHOOSE h \in HeadingAt : HeadingsUpTo(h) = x) + 1]]
\* the places where a bullet of the x-th section ends: its hash stands
\* before the closing ")"
BulletEnds(x) ==
    {p \in DOMAIN output_file : output_file[p] = ")" /\ HeadingsUpTo(p) = x}
\* the place in the git log of the commit with the hash
LogIndex(h) == CHOOSE j \in DOMAIN commits : HashOf(j) = <<h>>
\* the groups of the rules, in configuration order, that hold an entry
RECURSIVE PresentGroups(_)
PresentGroups(i) ==
    IF i > Len(commit_types) THEN <<>>
    ELSE (IF \E j \in DOMAIN commits : HasEntry(commit_types[i].group, j)
          THEN <<commit_types[i].group>> ELSE <<>>)
             \o PresentGroups(i + 1)

\* C12: the sections of the rendered changelog are the groups of the rules in
\* configuration order, a group appearing only when the classification gave
\* it an entry, and below each subheading stand all entries of the group in
\* the order of their commits in the git log.
C12_SectionsInRuleOrder ==
    cl_pc = "built" =>
        /\ RenderedGroups = PresentGroups(1)
        /\ \A x \in DOMAIN RenderedGroups :
               /\ Cardinality(BulletEnds(x)) = Len(commit_dict[RenderedGroups[x]])
               /\ \A a, b \in BulletEnds(x) :
                      a < b => LogIndex(output_file[a - 1])
                                   <= LogIndex(output_file[b - 1])

\* the newer commit is in the group of the later rule only, the older one in
\* the group of the earlier rule only: the group of the earlier rule is
\* rendered first
C12_Witness ==
    /\ cl_pc = "built"
    /\ Len(commits) = 2 /\ Len(commit_types) = 2
    /\ commit_types[1].group = "Added" /\ commit_types[2].group = "Fixed"
    /\ HasEntry("Fixed", 1) /\ ~HasEntry("Added", 1)
    /\ HasEntry("Added", 2) /\ ~HasEntry("Fixed", 2)
    /\ RenderedGroups = <<"Added", "Fixed">>

\* the last tokens of the written text
LastTokens(out, n) == SubSeq(out, Len(out) - n + 1, Len(out))
EndsWith(out, t) == Len(out) >= Len(t) /\ LastTokens(out, Len(t)) = t

\* C13: the written changelog ends with the line
\* "[<next>]: <base>/compare/<current>...<next>" when both versions are
\* known, with "[Unreleased]: <base>/compare/<current>...HEAD" when only the
\* current version is known, and with
\* "[Unreleased]: <base>/compare/???...HEAD" when the current version is
\* unknown.
C13_FooterLine ==
    cl_pc = "built" =>
        EndsWith(output_file,
            IF cb_next_version # "" /\ cb_current_version # ""
            THEN <<"\n[", cb_next_version, "]: ">> \o compare_link
                     \o <<cb_current_version, "...", cb_next_version>>
            ELSE IF cb_current_version # ""
            THEN <<"\n[Unreleased]: ">> \o compare_link
                     \o <<cb_current_version, "...HEAD">>
            ELSE <<"\n[Unreleased]: ">> \o compare_link \o <<"???...HEAD">>)

----------------------------------------------------------------------------
(* Claims about prepare, checked under SpecPrepare *)

\* the release version has been chosen and its tag is among the git tags
TagTaken ==
    /\ p_local.release_version # <<>>
    /\ \E i \in DOMAIN p_env.git_tags :
           p_env.git_tags[i] = p_args.git_tag_prefix \o p_local.release_version
\* the shell commands that change the repository
Mutating == {"git add", "git commit", "git commit -S", "git tag", "git tag -u"}

\* C1: when the computed tag is already among the git tags, prepare goes from
\* the tag check to exit status 1 and nowhere else, and has changed nothing:
\* no version file, changelog or .release.md written, no git add, commit or
\* tag run; this holds however the release version was chosen.
C1_TagTakenAbortsBeforeMutation ==
    TagTaken =>
        /\ p_pc \in {"guard", "exit"}
        /\ p_pc = "exit" => p_ret = "exit1"
        /\ p_writes = NoWrites
        /\ \A i \in DOMAIN p_cmds : p_cmds[i].cmd \notin Mutating

C1_Witness ==
    /\ TagTaken
    /\ p_args.calendar
    /\ p_args.git_tag_prefix # <<>>
    /\ p_pc = "exit" /\ p_ret = "exit1"

----------------------------------------------------------------------------
(* Claims about release, checked under SpecRelease *)

\* the places of the log where the command was run
RelAt(cmd) == {i \in DOMAIN rel.log : rel.log[i].cmd = cmd}
RelDid(cmd) == RelAt(cmd) # {}
\* release has called create_release and the call has raised an HTTPError
CreateReleaseFailed ==
    RelDid("create_release") /\ rel.env.create_release = "HTTPError"

\* C14: when create_release fails with an HTTP error, release returns False
\* with the failed call as the last thing done: .release.md is not removed,
\* no skeleton is added, the version is not updated, nothing is staged or
\* committed, there is no second push; the first push stays as it is and
\* create_release has been called once.
C14_HTTPErrorEndsRelease ==
    CreateReleaseFailed =>
        /\ rel.pc = "done" /\ rel.ret = "False"
        /\ rel.log[Len(rel.log)].cmd = "create_release"
        /\ Cardinality(RelAt("create_release")) = 1
        /\ Cardinality(RelAt("git push --follow-tags")) = 1
        /\ \A c \in {"unlink", "add_skeleton", "write_text", "update_version",
                     "git add", "git commit", "git commit -S"} : ~RelDid(c)

C14_Witness ==
    /\ CreateReleaseFailed
    /\ rel.ret = "False"
    /\ ~rel.args.conventional_commits
    /\ rel.env.project_file /\ rel.env.changelog_exists

\* the changelog files release may work on
ChangelogPaths == {"CHANGELOG.md", "args.changelog"}
\* the places of the log where a commit was made
RelCommits == RelAt("git commit") \cup RelAt("git commit -S")
\* the commit message names the empty changelog after the release version
NamesEmptyChangelog(msg) ==
    \E k \in DOMAIN msg :
        /\ msg[k] = "* Add empty changelog after "
        /\ k < Len(msg) /\ msg[k + 1] = rel.release_version
\* release has gone past the place where the skeleton is added
PastSkeleton == rel.pc = "update" \/ RelDid("update_version")

\* C15: once release is past the skeleton step, the skeleton has been added
\* and the changelog file written exactly when conventional commits are off;
\* a commit of release has CHANGELOG.md staged before it, and the line
\* "Add empty changelog after <release_version>" in its message, exactly
\* when conventional commits are off; with conventional commits on the
\* changelog file is never read, written or staged.
C15_SkeletonIffNotConventional ==
    /\ PastSkeleton =>
           /\ RelDid("add_skeleton") <=> ~rel.args.conventional_commits
           /\ RelDid("write_text") <=> ~rel.args.conventional_commits
    /\ \A i \in RelCommits :
           /\ (\E k \in RelAt("git add") :
                   k < i /\ rel.log[k].arg = "CHANGELOG.md")
                  <=> ~rel.args.conventional_commits
           /\ NamesEmptyChangelog(rel.log[i].msg)
                  <=> ~rel.args.conventional_commits
    /\ rel.args.conventional_commits =>
           /\ ~RelDid("add_skeleton")
           /\ \A i \in DOMAIN rel.log :
                  rel.log[i].cmd \in {"read_text", "write_text", "git add"}
                      => rel.log[i].arg \notin ChangelogPaths

C15_Witness ==
    /\ rel.ret = "True"
    /\ ~rel.args.conventional_commits
    /\ RelDid("add_skeleton")
    /\ \E k \in RelAt("git add") : rel.log[k].arg = "CHANGELOG.md"
    /\ \E i \in RelCommits : NamesEmptyChangelog(rel.log[i].msg)

\* the steps of release among the entries of its log, in order
ReleaseStepsDone ==
    LET steps == SelectSeq(rel.log, LAMBDA e :
                     e.cmd \in {"git push --follow-tags", "create_release",
                                "unlink", "add_skeleton", "update_version",
                                "git commit", "git commit -S"})
    IN  [i \in DOMAIN steps |->
            IF steps[i].cmd = "git commit -S" THEN "git commit"
            ELSE steps[i].cmd]
\* the steps of a whole run
ReleaseStepsExpected ==
    <<"git push --follow-tags", "create_release", "unlink">>
        \o (IF rel.args.conventional_commits THEN <<>> ELSE <<"add_skeleton">>)
        \o <<"update_version", "git commit", "git push --follow-tags">>

\* C16: a release run that returns True has done, in this order and each
\* once: push, create the release, remove the release text file, add the
\* skeleton (or skip it), update to the next development version, commit,
\* push again; at every moment of every run the steps done so far are a
\* beginning of that sequence, and the run that returns True had its release
\* created.
C16_StepsInOrder ==
    /\ Len(ReleaseStepsDone) <= Len(ReleaseStepsExpected)
    /\ ReleaseStepsDone
           = SubSeq(ReleaseStepsExpected, 1, Len(ReleaseStepsDone))
    /\ rel.ret = "True" =>
           /\ ReleaseStepsDone = ReleaseStepsExpected
           /\ rel.env.create_release = "created"
           /\ rel.pc = "done"

C16_Witness ==
    /\ rel.ret = "True"
    /\ rel.args.conventional_commits
    /\ rel.git_signing_key = "KEY"
    /\ Len(ReleaseStepsDone) = 6

----------------------------------------------------------------------------
(* Claims about the steps of prepare, checked under SpecPrepare *)

\* the places of the shell commands of prepare
PrepAt(cmds) == {i \in DOMAIN p_cmds : p_cmds[i].cmd \in cmds}
\* the release commit and the tag among them
ReleaseCommitAt ==
    {i \in PrepAt({"git commit", "git commit -S"}) :
        p_cmds[i].msg = "Automatic release"}
TagAt == PrepAt({"git tag", "git tag -u"})
\* the tag check has been passed
GuardPassed ==
    /\ p_local.release_version # <<>>
    /\ p_pc \notin {"start", "guard"}
    /\ ~TagTaken
\* the changelog text has been built
ChangelogBuilt ==
    /\ p_local.changelog_text # ""
    /\ IF p_args.conventional_commits
       THEN p_writes.cc_file # <<>> ELSE p_writes.changelog_file # <<>>

\* C17: in every run of prepare a step is done only after the ones before
\* it: the version files are written after the release version is computed
\* and the tag check passed, the changelog is built after that, the release
\* commit after that, the tag after the release commit; a run that returns
\* True has done all of them and has written the changelog text to
\* .release.md.
C17_PrepareStepsInOrder ==
    /\ p_writes.version_files # <<>> =>
           GuardPassed /\ p_writes.version_files = <<p_local.release_version>>
    /\ (p_writes.cc_file # <<>> \/ p_writes.changelog_file # <<>>) =>
           p_writes.version_files # <<>>
    /\ ReleaseCommitAt # {} => ChangelogBuilt
    /\ \A t \in TagAt : \E c \in ReleaseCommitAt : c < t
    /\ p_writes.tag # <<>> => TagAt # {}
    /\ p_writes.release_text # <<>> => TagAt # {}
    /\ p_ret = "True" =>
           /\ p_pc = "done"
           /\ Cardinality(TagAt) = 1 /\ Cardinality(ReleaseCommitAt) = 1
           /\ p_writes.tag = <<git_version(p_args.git_tag_prefix,
                                           p_local.release_version)>>
           /\ p_writes.release_text = <<p_local.changelog_text>>

C17_Witness ==
    /\ p_ret = "True"
    /\ p_args.conventional_commits
    /\ p_args.patch /\ ~p_args.calendar
    /\ p_local.git_signing_key # ""
    /\ TagAt # {}

\* the manual changelog step of prepare has been done
ManualSearched == ~p_args.conventional_commits /\ p_local.searches # <<>>

\* C18: in the manual changelog path the search for the section of the
\* release version is made first, the search for the unversioned section is
\* made exactly when the first one found nothing, prepare exits with status 1
\* exactly when both found nothing, and the changelog file is written only
\* after a search that found a section.
C18_FallbackSearch ==
    /\ ManualSearched =>
           /\ p_local.searches[1] = "containing_version"
           /\ Len(p_local.searches) <= 2
           /\ (\E i \in DOMAIN p_local.searches :
                   p_local.searches[i] = "unversioned")
                  <=> ~p_env.versioned_section
           /\ (p_pc = "exit" /\ p_ret = "exit1")
                  <=> (~p_env.versioned_section /\ ~p_env.unreleased_section)
    /\ p_writes.changelog_file # <<>> =>
           /\ ManualSearched
           /\ p_env.versioned_section \/ p_env.unreleased_section

C18_Witness ==
    /\ p_local.searches = <<"containing_version", "unversioned">>
    /\ p_writes.changelog_file # <<>>
    /\ p_local.changelog_text = "unreleased section"

----------------------------------------------------------------------------
(* Claims about sign, checked under SpecSign *)

\* the places of the log of sign where one of the commands was run
SgnAt(cmds) == {i \in DOMAIN sgn.log : sgn.log[i].cmd \in cmds}
Downloads ==
    {"download_release_zip", "download_release_tarball",
     "download_release_assets"}
Gpg == {"gpg", "gpg --pinentry-mode loopback"}
Uploads == {"upload_release_assets"}
\* every file of the release has been downloaded and signed
AllSigned ==
    /\ Cardinality(SgnAt(Downloads)) = 2 + Len(sgn.env.assets)
    /\ Cardinality(SgnAt(Gpg)) = 2 + Len(sgn.env.assets)

\* C19: in a dry run sign never uploads, and once all files are signed the
\* next thing it does is return True, the last signature being the last
\* thing done; with an empty token sign returns False with nothing done (no
\* API call, no download, no signature) exactly when it is not a dry run.
C19_DryRunAndToken ==
    /\ sgn.args.dry_run =>
           /\ SgnAt(Uploads) = {}
           /\ AllSigned =>
                  /\ sgn.pc \in {"sign", "done"}
                  /\ sgn.log[Len(sgn.log)].cmd \in Gpg
                  /\ sgn.pc = "done" => sgn.ret = "True"
           /\ sgn.ret = "True" => AllSigned
    /\ (sgn.args.token = "" /\ sgn.pc # "start") =>
           ((sgn.pc = "done" /\ sgn.ret = "False" /\ sgn.log = <<>>)
                <=> ~sgn.args.dry_run)

C19_Witness ==
    /\ sgn.args.token = "" /\ sgn.args.dry_run
    /\ sgn.ret = "True"
    /\ Len(sgn.env.assets) = 2
    /\ AllSigned

\* C20: the first thing sign does is ask whether the release exists; when
\* it does not, sign returns False and nothing else is done; every download
\* stands before every signature, and the first signature is made after the
\* zip, the tarball and every asset are downloaded; every signature stands
\* before every upload, and the first upload is made after every file is
\* signed.
C20_SignStepsInOrder ==
    /\ sgn.log # <<>> => sgn.log[1].cmd = "release_exists"
    /\ Cardinality(SgnAt({"release_exists"})) <= 1
    /\ (sgn.log # <<>> /\ ~sgn.env.release_exists) =>
           /\ sgn.pc = "done" /\ sgn.ret = "False"
           /\ Len(sgn.log) = 1
    /\ \A d \in SgnAt(Downloads) : \A g \in SgnAt(Gpg) : d < g
    /\ SgnAt(Gpg) # {} =>
           Cardinality(SgnAt(Downloads)) = 2 + Len(sgn.env.assets)
    /\ \A g \in SgnAt(Gpg) : \A u \in SgnAt(Uploads) : g < u
    /\ SgnAt(Uploads) # {} => AllSigned

C20_Witness ==
    /\ sgn.ret = "True" /\ ~sgn.args.dry_run
    /\ Len(sgn.env.assets) = 2
    /\ Cardinality(SgnAt(Uploads)) = 4

----------------------------------------------------------------------------
(* Claims about VersionCommand (SpecVersionCommand) *)

\* update_version has returned without raising
UpdateReturned == vcmd.call.op = "update" /\ vcmd.pc = "done"

\* update_version has written, the manifest first and the module second
UpdateWrote ==
    \E n \in {0, 1} :
        /\ Len(vcmd.log) = n + 2
        /\ vcmd.log[n + 1] = "write pyproject.toml"
        /\ vcmd.log[n + 2] = "write version module"

\* C21: after update_version returns without raising, whatever the two
\* files held and whatever the force and develop flags are, the version of
\* the manifest and the version of the version module are equal.
C21_ManifestEqualsModule ==
    UpdateReturned =>
        /\ vcmd.pyproject # <<>> /\ vcmd.module # <<>>
        /\ safe_version(vcmd.pyproject[1]) = safe_version(vcmd.module[1])

\* a version string carries a dev marker
HasDevMarker(version) == \E i \in DOMAIN version : version[i] = DevTok

\* the number of dev markers of a version string
DevMarkers(version) ==
    Cardinality({i \in DOMAIN version : version[i] = DevTok})

\* the version strings of VcmdVersions that are written in PEP 440's
\* normal form: "1.0", "1.0.dev1" and "1.1"
Pep440Versions ==
    {<<Num(1), Num(0)>>, <<Num(1), Num(0), DevTok, Num(1)>>,
     <<Num(1), Num(1)>>}

\* the provided version without one leading "v"
ProvidedVersion ==
    IF vcmd.call.version[1] = VTok
    THEN SubSeq(vcmd.call.version, 2, Len(vcmd.call.version))
    ELSE vcmd.call.version

\* the three conditions of verify_version, on the files as they were found
ManifestDiffers == vcmd.start.pyproject # vcmd.start.module

ModuleNotCompliant ==
    vcmd.start.module # <<>> /\ vcmd.start.module[1] \notin Pep440Versions

ProvidedDiffers ==
    /\ vcmd.call.version # <<CurrentTok>>
    /\ vcmd.start.module # <<ProvidedVersion>>

\* C25: verify_version raises VersionError whenever the manifest version
\* differs from the module version, whenever the module version is not
\* PEP 440 compliant, and whenever a provided version other than "current",
\* without one leading "v", differs from the module version; it completes
\* only when none of the three holds (and does complete then, when both
\* files carry a version); it never writes either file.
C25_VerifyRaises ==
    (vcmd.call.op = "verify" /\ vcmd.pc # "start") =>
        /\ (ManifestDiffers \/ ModuleNotCompliant \/ ProvidedDiffers) =>
               (vcmd.pc = "raised" /\ vcmd.ret = "VersionError")
        /\ vcmd.pc = "done" =>
               ~(ManifestDiffers \/ ModuleNotCompliant \/ ProvidedDiffers)
        /\ (vcmd.start.module # <<>> /\ vcmd.start.pyproject # <<>>
              /\ ~(ManifestDiffers \/ ModuleNotCompliant \/ ProvidedDiffers))
               => (vcmd.pc = "done" /\ vcmd.ret = "None")
        /\ vcmd.log = <<>>
        /\ vcmd.pyproject = vcmd.start.pyproject
        /\ vcmd.module = vcmd.start.module

C25_Witness ==
    /\ vcmd.call.op = "verify" /\ vcmd.pc = "done" /\ vcmd.ret = "None"
    /\ vcmd.call.version = <<VTok, Num(1), Num(0)>>
    /\ vcmd.module = <<<<Num(1), Num(0)>>>>

\* C27 as it is stated: update_version writes nothing when the version
\* module exists, force is false and the module's version equals the
\* requested version; in every other case that does not fail it writes
\* both files, the manifest first and the module second, with the same
\* version string.
C27_RequestedVersion ==
    UpdateReturned =>
        /\ vcmd.log = <<>> <=>
               /\ vcmd.start.module # <<>>
               /\ ~vcmd.call.force
               /\ safe_version(vcmd.start.module[1])
                      = safe_version(vcmd.call.version)
        /\ vcmd.log # <<>> => (UpdateWrote /\ vcmd.pyproject = vcmd.module)

\* the version update_version is going to write: the requested version in
\* its normal form, with ".dev1" behind it when develop is set and the
\* requested version has no dev marker
C27_VersionToWrite ==
    IF vcmd.call.develop /\ ~HasDevMarker(vcmd.call.version)
    THEN safe_version(vcmd.call.version) \o <<DevTok, Num(1)>>
    ELSE safe_version(vcmd.call.version)

\* C27, amended: update_version writes nothing exactly when the version
\* module exists, force is false and the module's version equals, both in
\* normal form, the version that is going to be written (the requested
\* version, with .dev1 when develop is set and it has no dev marker); in
\* every other case that does not fail it writes both files, the manifest
\* first and the module second, with that same version string.
C27_WritesNothingIffUpToDate ==
    UpdateReturned =>
        /\ vcmd.log = <<>> <=>
               /\ vcmd.start.module # <<>>
               /\ ~vcmd.call.force
               /\ safe_version(vcmd.start.module[1])
                      = safe_version(C27_VersionToWrite)
        /\ vcmd.log = <<>> =>
               /\ vcmd.pyproject = vcmd.start.pyproject
               /\ vcmd.module = vcmd.start.module
        /\ vcmd.log # <<>> =>
               /\ UpdateWrote
               /\ vcmd.pyproject = <<C27_VersionToWrite>>
               /\ vcmd.module = <<C27_VersionToWrite>>

C27_Witness ==
    /\ UpdateReturned /\ vcmd.log = <<>>
    /\ vcmd.call.develop
    /\ vcmd.call.version = <<Num(1), Num(0)>>
    /\ vcmd.module = <<<<Num(1), Num(0), DevTok, Num(1)>>>>
    /\ vcmd.pyproject = <<<<Num(1), Num(1)>>>>

\* C28: the development suffix is applied at most once: with develop set,
\* update_version writes the requested version (in normal form) followed by
\* .dev1 when the requested version has no dev marker, and the requested
\* version (in normal form) alone when it has one; without develop it adds
\* no dev marker; so a version written with develop set, as release does,
\* has exactly one dev marker.
C28_DevSuffixOnce ==
    (UpdateReturned /\ UpdateWrote) =>
        /\ (vcmd.call.develop /\ ~HasDevMarker(vcmd.call.version)) =>
               vcmd.module
                   = <<safe_version(vcmd.call.version) \o <<DevTok, Num(1)>>>>
        /\ (vcmd.call.develop /\ HasDevMarker(vcmd.call.version)) =>
               vcmd.module = <<safe_version(vcmd.call.version)>>
        /\ ~vcmd.call.develop =>
               DevMarkers(vcmd.module[1]) = DevMarkers(vcmd.call.version)
        /\ vcmd.call.develop => DevMarkers(vcmd.module[1]) = 1
        /\ vcmd.pyproject = vcmd.module

C28_Witness ==
    /\ UpdateReturned /\ UpdateWrote
    /\ vcmd.call.develop
    /\ vcmd.call.version = <<Num(1), Num(0), DevTok, Num(1)>>
    /\ vcmd.module = <<<<Num(1), Num(0), DevTok, Num(1)>>>>
    /\ vcmd.start.module = <<<<Num(1), Num(0)>>>>

----------------------------------------------------------------------------
(* Further claims about release (SpecRelease) *)

IsGitPushAddCommit(step) ==
    step.cmd \in {"git push --follow-tags", "git add", "git commit",
                  "git commit -S"}

\* the git push, git add and git commit commands of release, in order
RelShell == SelectSeq(rel.log, IsGitPushAddCommit)

\* a commit message holds the line made of the two parts
HasLine(msg, text, version) ==
    \E i \in 1..(Len(msg) - 1) : msg[i] = text /\ msg[i + 1] = version

\* C22: in a release that succeeds without conventional commits, the git
\* commands are: git push --follow-tags to the remote, git add of the
\* project file, git add of the __version__ file, git add CHANGELOG.md and a
\* git commit whose message has "* Update to version <next_version>" and
\* "* Add empty changelog after <release_version>" (followed by the second
\* push); the commit is signed, with the key, exactly when the signing key
\* is not empty.
C22_ShellCommandsInOrder ==
    (rel.ret = "True" /\ ~rel.args.conventional_commits) =>
        LET remote == IF rel.args.git_remote_name = "None"
                      THEN "" ELSE rel.args.git_remote_name
        IN  /\ Len(RelShell) = 6
            /\ RelShell[1] = Step("git push --follow-tags", remote)
            /\ RelShell[2] = Step("git add", rel.filename)
            /\ RelShell[3] = Step("git add", "*__version__.py")
            /\ RelShell[4] = Step("git add", "CHANGELOG.md")
            /\ RelShell[5].cmd \in {"git commit", "git commit -S"}
            /\ HasLine(RelShell[5].msg, "* Update to version ",
                       rel.next_version)
            /\ HasLine(RelShell[5].msg, "* Add empty changelog after ",
                       rel.release_version)
            /\ RelShell[5].cmd = "git commit -S" <=> rel.git_signing_key # ""
            /\ RelShell[5].cmd = "git commit -S" =>
                   RelShell[5].arg = rel.git_signing_key
            /\ RelShell[6] = RelShell[1]

C22_Witness ==
    /\ rel.ret = "True" /\ ~rel.args.conventional_commits
    /\ rel.args.git_remote_name = "upstream"
    /\ rel.args.git_signing_key = "KEY"
    /\ Len(RelShell) = 6
    /\ RelShell[5].cmd = "git commit -S" /\ RelShell[5].arg = "KEY"

\* update_version has reported that it has not been executed
VersionNotUpdated ==
    \E i \in RelAt("update_version") : rel.log[i].msg = "not executed"

\* C23 as it is stated: with the token present, release returns False only
\* when create_release has failed; no other step makes it return False.
C23_OnlyCreateReleaseStops ==
    (rel.args.token # "" /\ rel.ret = "False") => CreateReleaseFailed

\* C23, amended: with the token present, release returns False exactly when
\* create_release has failed with an HTTP error or update_version has
\* reported that it was not executed; in the second case the release is
\* already created, .release.md is removed, and nothing is committed or
\* pushed again. The other steps never make release return False: their
\* failure leaves release with an exception.
C23_ReturnsFalseWhen ==
    rel.args.token # "" =>
        /\ rel.ret = "False" <=> (CreateReleaseFailed \/ VersionNotUpdated)
        /\ VersionNotUpdated =>
               /\ rel.pc = "done"
               /\ rel.log[Len(rel.log)].cmd = "update_version"
               /\ rel.env.create_release = "created"
               /\ RelDid("create_release") /\ RelDid("unlink")
               /\ RelCommits = {} /\ ~RelDid("git add")
               /\ Cardinality(RelAt("git push --follow-tags")) = 1
        /\ rel.pc = "raised" =>
               /\ rel.ret \in {"CalledProcessError", "FileNotFoundError",
                               "VersionError"}
               /\ ~CreateReleaseFailed /\ ~VersionNotUpdated

C23_Witness ==
    /\ rel.args.token # "" /\ rel.ret = "False"
    /\ VersionNotUpdated
    /\ RelDid("add_skeleton")

----------------------------------------------------------------------------
(* Claims about paginated requests (SpecPaging) *)

\* the first page whose response has no "next" link
FirstWithoutNext ==
    CHOOSE i \in DOMAIN pg.pages :
        /\ "next" \notin DOMAIN pg.pages[i]
        /\ \A j \in 1..(i - 1) : "next" \in DOMAIN pg.pages[j]

\* the pages yielded so far are the first pages, each once and in order,
\* none of them behind the first page without a "next" link
PagesInOrder ==
    /\ \A i \in DOMAIN pg.yielded : pg.yielded[i] = i
    /\ Len(pg.yielded) <= FirstWithoutNext
    /\ pg.pc = "done" =>
           /\ Len(pg.yielded) = FirstWithoutNext
           /\ pg.url = 0

\* C24: a paginated request terminates: the next URL is the URL of the
\* response's "next" link when there is one and None otherwise, so the
\* pages are yielded once each, in order, and the request ends, at the
\* first response without a "next" link.
C24_PagingTerminates == []PagesInOrder /\ <>(pg.pc = "done")

C24_Witness ==
    /\ pg.pc = "done"
    /\ Len(pg.pages) = 3
    /\ pg.pages[2] = PrevLink(2)
    /\ pg.yielded = <<1, 2>>

----------------------------------------------------------------------------
(* Claims about _get_git_log (SpecGitLog) *)

\* C26: when a last tag is found, the log from that tag to HEAD is read;
\* when none is found, be it that the tag lookup gives empty output or that
\* it fails with CalledProcessError, the full log of HEAD is read; unless
\* git log itself fails, _get_git_log returns the lines of the log read, or
\* None when that log is empty, and does not raise.
C26_FullLogWhenNoTag ==
    (gl.pc \in {"done", "raised"} /\ ~gl.log_fails) =>
        /\ gl.pc = "done"
        /\ Len(gl.cmds) = 2
        /\ gl.cmds[2] = IF gl.tag_lookup = "v1.0"
                        THEN <<"git log ", "v1.0", "..HEAD --oneline">>
                        ELSE <<"git log HEAD --oneline">>
        /\ gl.lines = IF gl.tag_lookup = "v1.0" THEN gl.since ELSE gl.full
        /\ gl.ret = IF gl.lines = <<>> THEN "None" ELSE "lines"

----------------------------------------------------------------------------
(* Further claims about prepare (SpecPrepare) *)

\* update_version has reported failure and prepare has returned False
PrepareUpdateFailed == p_pc = "done" /\ p_ret = "False"

\* the manual path has been taken, with the version files written, in a
\* changelog that has neither the section of the release version nor an
\* unversioned unreleased section
PrepareSectionMissing ==
    /\ ~p_args.conventional_commits
    /\ ~p_env.versioned_section /\ ~p_env.unreleased_section
    /\ p_writes.version_files # <<>>
    /\ p_pc # "changelog"

\* no git command but the lookup of the signing key has been run
NothingCommittedOrTagged ==
    \A i \in DOMAIN p_cmds : p_cmds[i].cmd = "git config"

\* C29: when prepare stops after the tag check, because update_version
\* reports failure or because the manual path finds no unreleased section,
\* nothing has been committed, no tag has been made, and neither
\* CHANGELOG.md nor .release.md has been written; when the section is
\* missing, the version files are already rewritten to the release version.
C29_StopsWithoutCommitOrTag ==
    /\ PrepareUpdateFailed =>
           /\ NothingCommittedOrTagged
           /\ p_writes.tag = <<>>
           /\ p_writes.changelog_file = <<>> /\ p_writes.cc_file = <<>>
           /\ p_writes.release_text = <<>>
    /\ PrepareSectionMissing =>
           /\ p_pc = "exit" /\ p_ret = "exit1"
           /\ NothingCommittedOrTagged
           /\ p_writes.tag = <<>>
           /\ p_writes.changelog_file = <<>>
           /\ p_writes.release_text = <<>>
           /\ p_writes.version_files = <<p_local.release_version>>

C29_Witness ==
    /\ PrepareSectionMissing
    /\ p_pc = "exit"
    /\ p_local.searches = <<"containing_version", "unversioned">>
    /\ p_writes.version_files = <<p_local.release_version>>
    /\ p_env.git_tags # <<>>

----------------------------------------------------------------------------
(* Further claims about sign (SpecSign) *)

IsGpg(step) == step.cmd \in Gpg
IsUpload(step) == step.cmd \in Uploads

\* the arguments of the steps, in the order of the steps
ArgsOf(steps) == [i \in DOMAIN steps |-> steps[i].arg]

\* the files signed and the entries uploaded so far, in order
SignedFiles == ArgsOf(SelectSeq(sgn.log, IsGpg))
UploadedFiles == ArgsOf(SelectSeq(sgn.log, IsUpload))

\* the files of the release: the zip, the tarball, then every asset
FilesToSign == <<"zip_destination", "tarball_destination">> \o sgn.env.assets

\* the signature entry of each file of the release
SignaturesToUpload ==
    [i \in DOMAIN FilesToSign |->
        <<FilesToSign[i], ".asc", "application/pgp-signature">>]

IsPrefix(s, t) == Len(s) <= Len(t) /\ s = SubSeq(t, 1, Len(s))

\* C30: the files signed are the zip, the tarball and every downloaded
\* asset, in this order and each once; without dry run the signature
\* "<file>.asc" of every signed file, with content type
\* application/pgp-signature, is uploaded once, in the same order; an HTTP
\* error during the upload makes sign return False (it never leaves sign
\* as an exception), and True is returned only after every upload.
C30_SignedAndUploaded ==
    /\ IsPrefix(SignedFiles, FilesToSign)
    /\ IsPrefix(UploadedFiles, SignaturesToUpload)
    /\ sgn.pc = "upload" => SignedFiles = FilesToSign
    /\ UploadedFiles # <<>> => (SignedFiles = FilesToSign /\ ~sgn.args.dry_run)
    /\ (sgn.pc = "done" /\ sgn.ret = "True") =>
           /\ SignedFiles = FilesToSign
           /\ UploadedFiles =
                  IF sgn.args.dry_run THEN <<>> ELSE SignaturesToUpload
    /\ (SignedFiles = FilesToSign /\ ~sgn.args.dry_run
          /\ sgn.pc \notin {"sign", "upload"}) =>
           /\ sgn.pc = "done"
           /\ sgn.ret = "False" <=> UploadedFiles # SignaturesToUpload

C30_Witness ==
    /\ sgn.pc = "done" /\ sgn.ret = "False"
    /\ ~sgn.args.dry_run
    /\ Len(sgn.env.assets) = 2
    /\ SignedFiles = FilesToSign
    /\ Len(UploadedFiles) = 3

====
